---- MODULE Spec2Model ----
(***************************************************************************)
(* Observer chain (les/observer): the chain controller with its trie lock, *)
(* the block data model (with and without statements), the persistence     *)
(* helpers of database_util.go, and the trie database with its list of     *)
(* past tries and its code size cache.                                     *)
(*                                                                         *)
(* Hashes, signatures and encodings are modelled structurally: an RLP      *)
(* encoding is the tuple of the encoded fields, keccak256 and the ECDSA    *)
(* signature are injective constructors over what they are applied to.     *)
(* Tries are objects named by pointers, so that a list entry and a handle  *)
(* can be one object.                                                      *)
(*                                                                         *)
(* Spec is the chain controller, SpecStore the direct users of the         *)
(* persistence helpers, SpecCache the trie database under direct calls of  *)
(* pushTrie and OpenTrie, SpecTrie the trie database used through handles  *)
(* and commits, SpecCode the code size cache.  SpecStmt is a statement     *)
(* object through construction, hashing and its RLP round trip, SpecAlias  *)
(* a statement and the caller's byte slices it was built from, SpecBlock   *)
(* the block objects of the three block layouts with their memoized hash   *)
(* and size, SpecRead the readers GetBlock, GetStmtLookupEntry and         *)
(* GetStatement over stores of well-formed and malformed data, SpecFault   *)
(* a chain and the callers of WriteBlock next to it over a                 *)
(* store whose Put may fail, SpecReopen a chain built on a store that an   *)
(* earlier run left with blocks in it.                                     *)
(***************************************************************************)
EXTENDS Integers, Sequences, FiniteSets, TLC

(* ----------------------------- bounds ---------------------------------- *)

\* time.Now().Unix() ranges over 1..MaxTime
MaxTime == 2

\* block numbers of the blocks built by the users of the persistence
\* helpers range over 0..MaxNumber
MaxNumber == 1

\* the calls of pushTrie made on a trie database that takes no commits
MaxPushes == 14

\* the last RacePushes of them may run while other calls run; before that
\* a call starts when no other call is running
RacePushes == 3

\* the commits made through the handles of a trie database
MaxCommits == 1

\* the values written through the handles of a trie database: 1..MaxVal
MaxVal == 2

\* the arrays behind the arguments of NewStatement hold up to MaxLen bytes
MaxLen == 1

\* goroutines calling into one Chain
Callers == {"c1", "c2"}

\* private keys handed to NewChain
PrivKeys == {"k1", "k2"}

\* a private key crypto.Sign returns an error for
BadKeys == {"k0"}

\* keys and values written through a trie handle
TrieKeys == {"SomeKey"}
TrieValues == {"SomeValue"}

(* ---------------------------- constants -------------------------------- *)

\* statuses for statement trie (iota)
locked == 0
unlocked == 1
unlocking == 2

\* the number of past tries to keep
maxPastTries == 12

\* common.Hash{} and types.EmptyRootHash
ZeroHash == <<"zero">>
EmptyRootHash == <<"emptyRoot">>

ErrNil == "nil"
ErrNoBlock == "Block not found in observer chain"
ErrTrieIsAlreadyLocked == "Can not unlock, Observer trie is already locked, sorry"

\* nil pointers
NoBlock == [nil |-> TRUE]
NoTrie == [nil |-> TRUE]

\* a nil or empty byte slice
NoBytes == <<>>

(* ----------------------------- hashing --------------------------------- *)

Keccak256(data) == <<"keccak256", data>>

\* crypto.Sign(digest, key): the signature, or nil (with an error the callers
\* drop) for a key the primitive refuses
CryptoSign(digest, privKey) ==
    IF privKey \in BadKeys THEN NoBytes ELSE <<"sig", privKey, digest>>

EmptyContent == <<>>

\* Trie.Hash: the root of a trie holding the given entries
TrieHash(content) ==
    IF DOMAIN content = {} THEN EmptyRootHash ELSE <<"root", content>>

(* ---------------------------- statements ------------------------------- *)

\* NewStatement(key, value): the signature values start as zero
NewStatement(key, value) == [Key |-> key, Value |-> value, V |-> 0, R |-> 0, S |-> 0]

\* NewStatement(payload) of the Statement that carries a payload
NewPayloadStatement(payload) == [Payload |-> payload, V |-> 0, R |-> 0, S |-> 0]

\* Statement.EncodeRLP: the list of the keyValue fields, or of the payload
\* fields of the Statement that carries a payload
StatementEncodeRLP(s) ==
    IF "Payload" \in DOMAIN s
    THEN <<s.Payload, s.V, s.R, s.S>>
    ELSE <<s.Key, s.Value, s.V, s.R, s.S>>

\* a Statement.DecodeRLP that loads the key into the value as well
StatementDecodeRLP_KeyTwice(data) ==
    IF Len(data) = 4
    THEN [Payload |-> data[1], V |-> data[2], R |-> data[3], S |-> data[4]]
    ELSE [Key |-> data[1], Value |-> data[1], V |-> data[3], R |-> data[4],
          S |-> data[5]]

\* Statement.DecodeRLP: s.Decode into the keyValue or the payload
StatementDecodeRLP(data) ==
    IF Len(data) = 4
    THEN [Payload |-> data[1], V |-> data[2], R |-> data[3], S |-> data[4]]
    ELSE [Key |-> data[1], Value |-> data[2], V |-> data[3], R |-> data[4],
          S |-> data[5]]

\* the bytes an RLP encoding takes: a byte string (shorter than 56 bytes), a
\* number (below 2^31 here), a list with a content shorter than 65536 bytes
BytesSize(b) == IF Len(b) = 1 /\ b[1] < 128 THEN 1 ELSE 1 + Len(b)
IntSize(n) ==
    IF n < 128 THEN 1
    ELSE IF n < 256 THEN 2
    ELSE IF n < 65536 THEN 3
    ELSE IF n < 16777216 THEN 4 ELSE 5
ListSize(contentSize) ==
    IF contentSize < 56 THEN 1 + contentSize
    ELSE IF contentSize < 256 THEN 2 + contentSize ELSE 3 + contentSize

\* the bytes written by Statement.EncodeRLP, as Size counts them
StatementSize(s) ==
    ListSize((IF "Payload" \in DOMAIN s THEN BytesSize(s.Payload)
              ELSE BytesSize(s.Key) + BytesSize(s.Value))
             + IntSize(s.V) + IntSize(s.R) + IntSize(s.S))

\* Statements.GetRlp(i), counted from 1 here
GetRlp(stmts, i) == StatementEncodeRLP(stmts[i])

\* types.DeriveSha(Statements(stmts)): the root of the trie that maps each
\* index to the encoding of its statement
DeriveSha(stmts) == TrieHash([i \in 1..Len(stmts) |-> GetRlp(stmts, i)])

(* ----------------------- block with statements ------------------------- *)

\* RLP encoding of the Header struct
HeaderEncodeRLP(h) ==
    <<h.PrevHash, h.Number, h.Time, h.StmtsRoot, h.SignatureType, h.Signature>>

HeaderDecodeRLP(data) ==
    [PrevHash |-> data[1], Number |-> data[2], Time |-> data[3],
     StmtsRoot |-> data[4], SignatureType |-> data[5], Signature |-> data[6]]

\* Header.hash
HeaderHash(h) == Keccak256(HeaderEncodeRLP(h))

\* Header.sign: signs the hash of the encoding with the Signature left nil
HeaderSign(h, privKey) ==
    LET unsignedData == [PrevHash |-> h.PrevHash, Number |-> h.Number,
                         Time |-> h.Time, StmtsRoot |-> h.StmtsRoot,
                         SignatureType |-> h.SignatureType, Signature |-> NoBytes]
    IN [h EXCEPT !.Signature = CryptoSign(Keccak256(HeaderEncodeRLP(unsignedData)), privKey)]

\* the root a block is given for its statements and the statements it keeps
StmtsRootOf(stmts) == IF Len(stmts) = 0 THEN EmptyRootHash ELSE DeriveSha(stmts)

\* a NewBlock that gives every block the root of the empty trie
NewBlockWithStatements_EmptyRoot(stmts, privKey, unixTime) ==
    [header |-> HeaderSign([PrevHash |-> ZeroHash, Number |-> 0, Time |-> unixTime,
                            StmtsRoot |-> EmptyRootHash, SignatureType |-> "ECDSA",
                            Signature |-> NoBytes], privKey),
     statements |-> stmts]

\* NewBlock(stmts, privKey)
NewBlockWithStatements(stmts, privKey, unixTime) ==
    [header |-> HeaderSign([PrevHash |-> ZeroHash, Number |-> 0, Time |-> unixTime,
                            StmtsRoot |-> StmtsRootOf(stmts), SignatureType |-> "ECDSA",
                            Signature |-> NoBytes], privKey),
     statements |-> stmts]

\* Block.Hash of a block with a header: the hash of the header
BlockHash(b) == HeaderHash(b.header)

\* a CreateSuccessor that repeats the number of its predecessor
BlockCreateSuccessor_SameNumber(b, stmts, privKey, unixTime) ==
    [header |-> HeaderSign([PrevHash |-> BlockHash(b), Number |-> b.header.Number,
                            Time |-> unixTime, StmtsRoot |-> StmtsRootOf(stmts),
                            SignatureType |-> "ECDSA", Signature |-> NoBytes], privKey),
     statements |-> stmts]

\* Block.CreateSuccessor(stmts, privKey)
BlockCreateSuccessor(b, stmts, privKey, unixTime) ==
    [header |-> HeaderSign([PrevHash |-> BlockHash(b), Number |-> b.header.Number + 1,
                            Time |-> unixTime, StmtsRoot |-> StmtsRootOf(stmts),
                            SignatureType |-> "ECDSA", Signature |-> NoBytes], privKey),
     statements |-> stmts]

\* Block.EncodeRLP of a block with a header: encBlock{Header, Statements}
BlockEncodeRLP(b) ==
    <<HeaderEncodeRLP(b.header),
      [i \in 1..Len(b.statements) |-> StatementEncodeRLP(b.statements[i])]>>

\* a Block.DecodeRLP that leaves the statements out
BlockDecodeRLP_NoStatements(data) ==
    [header |-> HeaderDecodeRLP(data[1]), statements |-> <<>>]

\* Block.DecodeRLP of encBlock{Header, Statements}
BlockDecodeRLP(data) ==
    [header |-> HeaderDecodeRLP(data[1]),
     statements |-> [i \in 1..Len(data[2]) |-> StatementDecodeRLP(data[2][i])]]

\* block.header.Number; the block without a header carries the number itself
BlockNumber(b) == IF "header" \in DOMAIN b THEN b.header.Number ELSE b.Number

\* the statement lists handed to NewBlock and to CreateSuccessor
StmtFoo == NewStatement(<<102, 111, 111>>, <<98, 97, 114>>)
StmtBare == NewStatement(NoBytes, NoBytes)
StmtLists == {<<>>, <<StmtFoo, StmtBare>>}

\* the key the blocks with statements are signed with
StoreKey == "k1"

(* ------------------- blocks that keep no statements -------------------- *)

\* RLP encoding of the blockData struct, and of the Header struct that has
\* the same fields
blockDataEncodeRLP(d) ==
    <<d.PrevHash, d.Number, d.UnixTime, d.Statements, d.SignatureType, d.Signature>>

\* blockData.hash, Header.Hash
blockDataHash(d) == Keccak256(blockDataEncodeRLP(d))

\* blockData.sign: signs the hash of the encoding with the Signature left nil
blockDataSign(d, privKey) ==
    LET unsignedData == [PrevHash |-> d.PrevHash, Number |-> d.Number,
                         UnixTime |-> d.UnixTime, Statements |-> d.Statements,
                         SignatureType |-> d.SignatureType, Signature |-> NoBytes]
    IN [d EXCEPT !.Signature =
                     CryptoSign(Keccak256(blockDataEncodeRLP(unsignedData)), privKey)]

\* NewBlock(sts, privKey) of the block over a blockData
NewBlockOfData(sts, privKey, unixTime) ==
    [data |-> blockDataSign([PrevHash |-> ZeroHash, Number |-> 0, UnixTime |-> unixTime,
                             Statements |-> StmtsRootOf(sts), SignatureType |-> "ECDSA",
                             Signature |-> NoBytes], privKey)]

\* rlp.EncodeToBytes of a Block struct value that has no EncodeRLP: the list
\* of its exported fields, and header, hash and size are not exported
BlockStructEncodeRLP(b) == <<>>

\* Block.Sign: signs the hash of the encoding of a Block struct whose header
\* has the Signature left nil
BlockSign(h, privKey) ==
    LET unsignedBlock == [header |-> [PrevHash |-> h.PrevHash, Number |-> h.Number,
                                      UnixTime |-> h.UnixTime,
                                      Statements |-> h.Statements,
                                      SignatureType |-> h.SignatureType,
                                      Signature |-> NoBytes]]
    IN [h EXCEPT !.Signature =
                     CryptoSign(Keccak256(BlockStructEncodeRLP(unsignedBlock)), privKey)]

\* NewBlock(txs, privKey) of the block that has a Sign
NewBlockOfTxs(txs, privKey, unixTime) ==
    [header |-> BlockSign([PrevHash |-> ZeroHash, Number |-> 0, UnixTime |-> unixTime,
                           Statements |-> StmtsRootOf(txs), SignatureType |-> "ECDSA",
                           Signature |-> NoBytes], privKey)]

(* ------------------------------ block ---------------------------------- *)

\* binary.BigEndian.PutUint64 into 8 bytes; block numbers stay far below
\* 2^32 here, so the four high bytes are zero
BigEndian8(n) == [i \in 1..8 |-> IF i <= 4 THEN 0 ELSE (n \div (256^(8 - i))) % 256]

\* RLP encoding of a block: the list of the fields in order for the block
\* struct without a header, Block.EncodeRLP for the block with one.
\* A nil and an empty signature both encode as the empty string.
EncodeRLP(b) ==
    IF "header" \in DOMAIN b
    THEN BlockEncodeRLP(b)
    ELSE <<b.PrevHash, b.Number, b.UnixTime, b.TrieRoot, b.SignatureType, b.Signature>>

\* RLP decoding into a Block: the six-field list of the block without a
\* header, the pair of header and statements of the block with one, the
\* header a list of six fields and each statement a list of four or five;
\* fails on anything else
DecodeRLP(data) ==
    IF Len(data) = 6
    THEN [PrevHash |-> data[1], Number |-> data[2], UnixTime |-> data[3],
          TrieRoot |-> data[4], SignatureType |-> data[5], Signature |-> data[6]]
    ELSE IF /\ Len(data) = 2
            /\ Len(data[1]) = 6
            /\ \A i \in 1..Len(data[2]) : Len(data[2][i]) \in {4, 5}
         THEN BlockDecodeRLP(data)
         ELSE NoBlock

\* rlpHash: keccak256 of the RLP encoding
rlpHash(b) == Keccak256(EncodeRLP(b))

\* Block.sign: signs the hash of the encoding with the Signature left nil
sign(b, privKey) ==
    LET unsignedBlock == [PrevHash |-> b.PrevHash, Number |-> b.Number,
                          UnixTime |-> b.UnixTime, TrieRoot |-> b.TrieRoot,
                          SignatureType |-> b.SignatureType, Signature |-> NoBytes]
    IN [b EXCEPT !.Signature = CryptoSign(Keccak256(EncodeRLP(unsignedBlock)), privKey)]

\* NewBlock(privKey): TrieRoot keeps its zero value
NewBlock(privKey, unixTime) ==
    sign([PrevHash |-> ZeroHash, Number |-> 0, UnixTime |-> unixTime,
          TrieRoot |-> ZeroHash, SignatureType |-> "ECDSA", Signature |-> NoBytes],
         privKey)

\* Block.Hash
Hash(b) == rlpHash(b)

\* Block.CreateSuccessor(root, privKey)
CreateSuccessor(b, root, privKey, unixTime) ==
    sign([PrevHash |-> Hash(b), Number |-> b.Number + 1, UnixTime |-> unixTime,
          TrieRoot |-> root, SignatureType |-> "ECDSA", Signature |-> NoBytes],
         privKey)

(* --------------------------- persistence ------------------------------- *)

blockPrefix == <<"obs-">>
stmtLookupPrefix == <<"obssl-">>
lastBlockKey == <<"lastBlock">>

\* mkBlockKey: blockPrefix + big endian number
mkBlockKey(number) == blockPrefix \o BigEndian8(number)

\* db.Get: no data for a missing key
DbGet(store, key) == IF key \in DOMAIN store THEN store[key] ELSE NoBytes

\* db.Put
DbPut(store, key, value) == (key :> value) @@ store

\* a GetBlock that never finds the stored block
GetBlock_NeverFound(store, number) == NoBlock

\* GetBlock: nil when nothing is stored or it does not decode
GetBlock(store, number) ==
    LET data == DbGet(store, mkBlockKey(number))
    IN IF Len(data) = 0 THEN NoBlock ELSE DecodeRLP(data)

\* mkStmtLookupKey: stmtLookupPrefix + key
mkStmtLookupKey(key) == stmtLookupPrefix \o key

\* a GetStmtLookupEntry that returns the zero entry as found when the data
\* does not decode
GetStmtLookupEntry_ZeroEntry(store, key) ==
    LET data == DbGet(store, mkStmtLookupKey(key))
    IN IF Len(data) = 0 THEN [number |-> 0, index |-> 0, ok |-> FALSE]
       ELSE IF Len(data) # 2 THEN [number |-> 0, index |-> 0, ok |-> TRUE]
       ELSE [number |-> data[1], index |-> data[2], ok |-> TRUE]

\* GetStmtLookupEntry: (0, 0, false) when nothing is stored or it does not
\* decode as the list of BlockNumber and Index
GetStmtLookupEntry(store, key) ==
    LET data == DbGet(store, mkStmtLookupKey(key))
    IN IF Len(data) = 0 THEN [number |-> 0, index |-> 0, ok |-> FALSE]
       ELSE IF Len(data) # 2 THEN [number |-> 0, index |-> 0, ok |-> FALSE]
       ELSE [number |-> data[1], index |-> data[2], ok |-> TRUE]

\* a WriteBlock that puts the block under the number after its own
WriteBlock_WrongKey(store, block) ==
    DbPut(store, mkBlockKey(BlockNumber(block) + 1), EncodeRLP(block))

\* WriteBlock: the store after the Put under the block's number
WriteBlock(store, block) ==
    DbPut(store, mkBlockKey(BlockNumber(block)), EncodeRLP(block))

\* a WriteLastObserverBlockHash that puts the hash under the block prefix
WriteLastObserverBlockHash_BlockPrefix(store, hash) == DbPut(store, blockPrefix, hash)

\* WriteLastObserverBlockHash
WriteLastObserverBlockHash(store, hash) == DbPut(store, lastBlockKey, hash)

\* Block.StatementByIndex(i): the statement at index i, counted from 0, nil
\* when the block has no such statement
StatementByIndex(b, i) ==
    IF "statements" \in DOMAIN b /\ i < Len(b.statements)
    THEN b.statements[i + 1]
    ELSE [nil |-> TRUE]

\* a GetStatement that returns the number and the index of the lookup entry
\* with the nil statement
GetStatement_EntryOnMiss(store, key) ==
    LET e == GetStmtLookupEntry(store, key)
        block == GetBlock(store, e.number)
    IN [stmt |-> IF e.ok /\ block # NoBlock THEN StatementByIndex(block, e.index)
                 ELSE [nil |-> TRUE],
        number |-> e.number, index |-> e.index]

\* GetStatement(db, key): the statement, the number of its block and its
\* index in it, or nil, 0, 0
GetStatement(store, key) ==
    LET e == GetStmtLookupEntry(store, key)
        notFound == [stmt |-> [nil |-> TRUE], number |-> 0, index |-> 0]
    IN IF ~e.ok THEN notFound
       ELSE LET block == GetBlock(store, e.number)
            IN IF block = NoBlock THEN notFound
               ELSE LET stmt == StatementByIndex(block, e.index)
                    IN IF stmt # [nil |-> TRUE]
                       THEN [stmt |-> stmt, number |-> e.number, index |-> e.index]
                       ELSE notFound

(* ------------------------------- trie ---------------------------------- *)

\* trie.New(root, trie.NewDatabase(db)): the empty trie for the zero and the
\* empty root, otherwise the root node has to be in the store
TrieNew(root, store) ==
    IF root = ZeroHash \/ root = EmptyRootHash
    THEN [content |-> EmptyContent, err |-> ErrNil]
    ELSE IF <<"node", root>> \in DOMAIN store
         THEN [content |-> store[<<"node", root>>], err |-> ErrNil]
         ELSE [content |-> EmptyContent, err |-> "missing trie node"]

(* ------------------------------ state ---------------------------------- *)

VARIABLES
    db,            \* the key/value store: key -> value
    open,          \* NewChain has returned a chain
    firstBlock,    \* Chain.firstBlock
    currentBlock,  \* Chain.currentBlock
    privateKey,    \* Chain.privateKey
    trieStatus,    \* Chain.trieStatus
    now,           \* the wall clock, time.Now().Unix()
    pc,            \* per caller: the position inside its running call
    loc,           \* per caller: the locals of its running call
    handle,        \* per caller: the trie handle it was given
    ret,           \* per caller: what its last finished call returned
    holders,       \* callers given a trie since the last UnlockTrie
    lockIssued,    \* some LockAndGetTrie was issued on this chain
    released,      \* a holder called UnlockTrie and no lock was issued since
    fromEmpty,     \* the chain was built by NewChain on an empty store
    firstHashes,   \* FirstBlock().Hash() of every chain built on the store
    blk,           \* persistence helpers: the block built last by their user
    made,          \* persistence helpers: how blk was built
    looked,        \* persistence helpers: what the last Chain.Block returned
    fate,          \* persistence helpers: what became of the last call whose Put failed
    tries,         \* trie database: the SecureTrie objects alive, pointer -> content
    pastTries,     \* trieDatabase.pastTries: a list of pointers
    mu,            \* trieDatabase.mu: "free" or the caller holding it
    tpc,           \* per caller: the position inside its call on the trie database
    tloc,          \* per caller: the locals of that call
    th,            \* per caller: the trie handle OpenTrie gave it last (a pointer)
    tret,          \* per caller: what its last finished OpenTrie or CommitTo returned
    pushed,        \* every finished pushTrie in order: the pointer and its root then
    issued,        \* the number of pushTrie calls made
    codeSizeCache, \* trieDatabase.codeSizeCache: code hash -> size
    cret,          \* what the last ContractCode or ContractCodeSize returned
    mem,           \* statement objects: the byte arrays alive, address -> bytes
    st,            \* statement objects: the Statement built by NewStatement
    given,         \* statement objects: the bytes NewStatement was handed
    sret,          \* statement objects: what the last accessor or Hash returned
    buf,           \* statement objects: the bytes.Buffer written by EncodeRLP
    tst,           \* statement objects: the Statement DecodeRLP loads
    decoded,       \* statement objects: what tst was loaded from, and whether new
    hdrs,          \* block objects: the Header objects alive, pointer -> fields
    ob,            \* block objects: the Block built last
    bmade,         \* block objects: how ob was built, and what was done to it
    bbuf,          \* block objects: the bytes.Buffer written by EncodeRLP
    tb,            \* block objects: the Block DecodeRLP loads
    bdecoded       \* block objects: what tb was loaded from, and whether new

\* the state of the users of the persistence helpers
storeVars == <<blk, made, looked, fate>>

\* the state of a trie database and of its callers
trieVars == <<tries, pastTries, mu, tpc, tloc, th, tret, pushed, issued>>

\* the code size cache and the result of the last call that used it
codeVars == <<codeSizeCache, cret>>

\* the state of the Statement objects and of their user
stmtVars == <<mem, st, given, sret, buf, tst, decoded>>

\* the state of the Block objects and of their user
blockVars == <<hdrs, ob, bmade, bbuf, tb, bdecoded>>

\* the state of the objects of the data model
objVars == <<stmtVars, blockVars>>

\* the state outside the chain controller
extVars == <<storeVars, trieVars, codeVars, objVars>>

vars == <<db, open, firstBlock, currentBlock, privateKey, trieStatus, now,
          pc, loc, handle, ret, holders, lockIssued, released, fromEmpty, firstHashes,
          extVars>>

chainVars == <<open, firstBlock, currentBlock, privateKey>>

NoLoc == [op |-> "none"]
NoRet == [op |-> "none"]

\* nothing has used the persistence helpers directly
StoreInit ==
    /\ blk = NoBlock
    /\ made = [op |-> "none"]
    /\ looked = [op |-> "none"]
    /\ fate = [op |-> "none"]

\* a nil trie handle
NoHandle == <<>>

NoTLoc == [root |-> ZeroHash, t |-> NoHandle, seen |-> <<>>]

\* NewTrieDatabase: no past tries, the mutex free
TrieInit ==
    /\ tries = <<>>
    /\ pastTries = <<>>
    /\ mu = "free"
    /\ tpc = [c \in Callers |-> "idle"]
    /\ tloc = [c \in Callers |-> NoTLoc]
    /\ th = [c \in Callers |-> NoHandle]
    /\ tret = [c \in Callers |-> NoRet]
    /\ pushed = <<>>
    /\ issued = 0

\* NewTrieDatabase: lru.New(codeSizeCacheSize), an empty cache
CodeInit ==
    /\ codeSizeCache = <<>>
    /\ cret = NoRet

\* no chain has been built
CtlInit ==
    /\ open = FALSE
    /\ firstBlock = NoBlock
    /\ currentBlock = NoBlock
    /\ privateKey = "none"
    /\ trieStatus = unlocked
    /\ now = 1
    /\ pc = [c \in Callers |-> "idle"]
    /\ loc = [c \in Callers |-> NoLoc]
    /\ handle = [c \in Callers |-> NoTrie]
    /\ ret = [c \in Callers |-> NoRet]
    /\ holders = {}
    /\ lockIssued = FALSE
    /\ released = FALSE
    /\ fromEmpty = FALSE
    /\ firstHashes = {}

\* nil pointers to a Statement, an empty hash cache, an empty size cache
NoStatement == [nil |-> TRUE]
NoHash == <<>>
NoSize == -1

\* no Statement has been built
StmtInit ==
    /\ mem = <<>>
    /\ st = NoStatement
    /\ given = <<>>
    /\ sret = NoRet
    /\ buf = NoBytes
    /\ tst = NoStatement
    /\ decoded = [op |-> "none"]

\* no Block has been built
BlockObjInit ==
    /\ hdrs = <<>>
    /\ ob = NoBlock
    /\ bmade = [op |-> "none"]
    /\ bbuf = NoBytes
    /\ tb = NoBlock
    /\ bdecoded = [op |-> "none"]

ObjInit == StmtInit /\ BlockObjInit

Init ==
    /\ StoreInit
    /\ TrieInit
    /\ CodeInit
    /\ ObjInit
    /\ CtlInit
    /\ db = <<>>

(* ----------------------------- actions --------------------------------- *)

\* the clock advances
Tick ==
    /\ now < MaxTime
    /\ now' = now + 1
    /\ UNCHANGED <<extVars, db, chainVars, trieStatus, pc, loc, handle, ret, holders,
                   lockIssued, released, fromEmpty, firstHashes>>

\* Chain.Block
ChainBlock(store, number) ==
    LET b == GetBlock(store, number)
    IN IF b = NoBlock THEN [block |-> NoBlock, err |-> ErrNoBlock]
       ELSE [block |-> b, err |-> ErrNil]

\* Chain.Block as it stands next to the first NewChain that reads the store:
\* the result of GetBlock goes out with a nil error
ChainBlockUnchecked(store, number) == [block |-> GetBlock(store, number), err |-> ErrNil]

\* Chain.Block of les/observer/chain.go: the lookup is commented out
ChainBlockStub(store, number) == [block |-> NoBlock, err |-> ErrNil]

\* NewChain(db, privKey), called while no call is running on an older chain
\* object of the same store (a restart)
NewChain(privKey) ==
    /\ \A c \in Callers : pc[c] = "idle"
    /\ LET stored == GetBlock(db, 0)
           fb == IF stored = NoBlock THEN NewBlock(privKey, now) ELSE stored
       IN /\ db' = WriteLastObserverBlockHash(WriteBlock(db, fb), Hash(fb))
          /\ firstBlock' = fb
          /\ currentBlock' = fb
          /\ firstHashes' = firstHashes \cup {Hash(fb)}
    /\ privateKey' = privKey
    /\ trieStatus' = unlocked
    /\ open' = TRUE
    /\ fromEmpty' = (DOMAIN db = {})
    /\ loc' = [c \in Callers |-> NoLoc]
    /\ handle' = [c \in Callers |-> NoTrie]
    /\ ret' = [c \in Callers |-> NoRet]
    /\ holders' = {}
    /\ lockIssued' = FALSE
    /\ released' = FALSE
    /\ UNCHANGED <<extVars, now, pc>>

\* LockAndGetTrie, line 103: the load of the status.  o is "lock" for a direct
\* call and "create" for the call made by CreateBlock.
LockLoad(c, o) ==
    /\ open
    /\ pc[c] = "idle"
    /\ loc' = [loc EXCEPT ![c] = [op |-> o, sts |-> trieStatus, first |-> ~lockIssued,
                                  held |-> (holders # {}), afterUnlock |-> released,
                                  head |-> currentBlock]]
    /\ pc' = [pc EXCEPT ![c] = IF trieStatus = unlocked THEN "store" ELSE "fail"]
    /\ lockIssued' = TRUE
    /\ released' = FALSE
    /\ UNCHANGED <<extVars, db, chainVars, trieStatus, now, handle, ret, holders,
                   fromEmpty, firstHashes>>

\* the result of a finished LockAndGetTrie goes to the caller (a direct call)
\* or to CreateBlock
LockReturn(c, tr, err) ==
    IF loc[c].op = "lock"
    THEN /\ pc' = [pc EXCEPT ![c] = "idle"]
         /\ handle' = [handle EXCEPT ![c] = tr]
         /\ holders' = IF tr # NoTrie THEN holders \cup {c} ELSE holders
         /\ ret' = [ret EXCEPT ![c] = [op |-> "lock", trie |-> tr, err |-> err,
                                       first |-> loc[c].first, held |-> loc[c].held,
                                       afterUnlock |-> loc[c].afterUnlock,
                                       stsAfter |-> trieStatus']]
         /\ loc' = [loc EXCEPT ![c] = NoLoc]
    ELSE /\ pc' = [pc EXCEPT ![c] = "seal"]
         /\ loc' = [loc EXCEPT ![c] = [loc[c] EXCEPT !.op = "create"] @@
                                      [trie |-> tr, err |-> err]]
         /\ UNCHANGED <<handle, holders, ret>>

\* a LockAndGetTrie that leaves the status unlocked
LockStore_NoLock(c) ==
    /\ pc[c] = "store"
    /\ trieStatus' = unlocked
    /\ pc' = [pc EXCEPT ![c] = "open"]
    /\ UNCHANGED <<extVars, db, chainVars, now, loc, handle, ret, holders, lockIssued,
                   released, fromEmpty, firstHashes>>

\* LockAndGetTrie, line 104: the store of locked
LockStore(c) ==
    /\ pc[c] = "store"
    /\ trieStatus' = locked
    /\ pc' = [pc EXCEPT ![c] = "open"]
    /\ UNCHANGED <<extVars, db, chainVars, now, loc, handle, ret, holders, lockIssued,
                   released, fromEmpty, firstHashes>>

\* LockAndGetTrie, lines 105-110: the trie at the current block's root
LockOpen(c) ==
    /\ pc[c] = "open"
    /\ UNCHANGED <<extVars, db, chainVars, trieStatus, now, lockIssued, released,
                   fromEmpty, firstHashes>>
    /\ LET tr == TrieNew(currentBlock.TrieRoot, db)
       IN IF tr.err = ErrNil
          THEN LockReturn(c, [content |-> tr.content], ErrNil)
          ELSE LockReturn(c, NoTrie, ErrTrieIsAlreadyLocked)

\* LockAndGetTrie, line 110: the status was not unlocked
LockFail(c) ==
    /\ pc[c] = "fail"
    /\ UNCHANGED <<extVars, db, chainVars, trieStatus, now, lockIssued, released,
                   fromEmpty, firstHashes>>
    /\ LockReturn(c, NoTrie, ErrTrieIsAlreadyLocked)

\* Trie.TryUpdate through a handle the caller was given
TryUpdate(c, k, v) ==
    /\ pc[c] = "idle"
    /\ handle[c] # NoTrie
    /\ handle' = [handle EXCEPT ![c] = [content |-> (k :> v) @@ handle[c].content]]
    /\ UNCHANGED <<extVars, db, chainVars, trieStatus, now, pc, loc, ret, holders,
                   lockIssued, released, fromEmpty, firstHashes>>

\* an UnlockTrie that stores unlocking whatever the status is
UnlockTrie_StoresUnlocking(c) ==
    /\ open
    /\ pc[c] = "idle"
    /\ trieStatus' = unlocking
    /\ UNCHANGED <<extVars, db, chainVars, now, pc, loc, lockIssued,
                   fromEmpty, firstHashes>>
    /\ ret' = [ret EXCEPT ![c] = [op |-> "unlock", holder |-> (c \in holders),
                                  stsBefore |-> trieStatus, stsAfter |-> trieStatus']]
    /\ handle' = [handle EXCEPT ![c] = NoTrie]
    /\ holders' = {}
    /\ released' = (c \in holders)

\* UnlockTrie: loads the status and does nothing with it; the caller gives
\* up its handle
UnlockTrie(c) ==
    /\ open
    /\ pc[c] = "idle"
    /\ UNCHANGED <<extVars, db, chainVars, trieStatus, now, pc, loc, lockIssued,
                   fromEmpty, firstHashes>>
    /\ ret' = [ret EXCEPT ![c] = [op |-> "unlock", holder |-> (c \in holders),
                                  stsBefore |-> trieStatus, stsAfter |-> trieStatus']]
    /\ handle' = [handle EXCEPT ![c] = NoTrie]
    /\ holders' = {}
    /\ released' = (c \in holders)

\* CreateBlock, lines 127-131, after its LockAndGetTrie has returned: the
\* commit of the fresh trie stays in the memory of its own trie.Database,
\* and both branches seal a successor with the current block's root
CreateSeal(c) ==
    /\ pc[c] = "seal"
    /\ UNCHANGED <<extVars, db, chainVars, trieStatus, now, handle, holders, lockIssued,
                   released, fromEmpty, firstHashes>>
    /\ LET b == CreateSuccessor(currentBlock, currentBlock.TrieRoot, privateKey, now)
       IN ret' = [ret EXCEPT ![c] =
                    [op |-> "create", block |-> b, lockErr |-> loc[c].err,
                     prev |-> loc[c].head, head |-> currentBlock',
                     lookup |-> ChainBlock(db', b.Number),
                     mutated |-> (\E d \in Callers :
                                     /\ handle[d] # NoTrie
                                     /\ DOMAIN handle[d].content # {}),
                     stsAfter |-> trieStatus']]
    /\ pc' = [pc EXCEPT ![c] = "idle"]
    /\ loc' = [loc EXCEPT ![c] = NoLoc]

Next ==
    \/ Tick
    \/ \E k \in PrivKeys : NewChain(k)
    \/ \E c \in Callers, o \in {"lock", "create"} : LockLoad(c, o)
    \/ \E c \in Callers : LockStore(c)
    \/ \E c \in Callers : LockOpen(c)
    \/ \E c \in Callers : LockFail(c)
    \/ \E c \in Callers, k \in TrieKeys, v \in TrieValues : TryUpdate(c, k, v)
    \/ \E c \in Callers : UnlockTrie(c)
    \/ \E c \in Callers : CreateSeal(c)

Spec == Init /\ [][Next]_vars

(* ------------------- users of the persistence helpers ------------------ *)

\* the chain controller's state apart from the store and the clock
ctlVars == <<chainVars, trieStatus, pc, loc, handle, ret, holders, lockIssued,
             released, fromEmpty, firstHashes>>

\* NewBlock(stmts, privKey)
StoreNewBlock(stmts) ==
    /\ blk' = NewBlockWithStatements(stmts, StoreKey, now)
    /\ made' = [op |-> "new", stmts |-> stmts]
    /\ UNCHANGED <<objVars, db, now, ctlVars, looked, fate, trieVars, codeVars>>

\* blk.CreateSuccessor(stmts, privKey)
StoreCreateSuccessor(stmts) ==
    /\ blk # NoBlock
    /\ BlockNumber(blk) < MaxNumber
    /\ blk' = BlockCreateSuccessor(blk, stmts, StoreKey, now)
    /\ made' = [op |-> "successor", stmts |-> stmts, parent |-> blk]
    /\ UNCHANGED <<objVars, db, now, ctlVars, looked, fate, trieVars, codeVars>>

\* WriteBlock(db, blk) with a Put that succeeds
StoreWriteBlock ==
    /\ blk # NoBlock
    /\ db' = WriteBlock(db, blk)
    /\ UNCHANGED <<objVars, now, ctlVars, storeVars, trieVars, codeVars>>

\* Chain.Block(number) in one of the three forms the sources give it
StoreChainBlock(form, number) ==
    /\ LET res == CASE form = "checked" -> ChainBlock(db, number)
                    [] form = "unchecked" -> ChainBlockUnchecked(db, number)
                    [] form = "stub" -> ChainBlockStub(db, number)
       IN looked' = [op |-> "block", form |-> form, number |-> number,
                     stored |-> (GetBlock(db, number) # NoBlock),
                     isNil |-> (res.block = NoBlock), err |-> res.err,
                     numberOut |-> IF res.block = NoBlock THEN -1
                                   ELSE BlockNumber(res.block)]
    /\ UNCHANGED <<objVars, db, now, ctlVars, blk, made, fate, trieVars, codeVars>>

NextStore ==
    \/ \E stmts \in StmtLists : StoreNewBlock(stmts)
    \/ \E stmts \in StmtLists : StoreCreateSuccessor(stmts)
    \/ StoreWriteBlock
    \/ \E form \in {"checked", "unchecked", "stub"}, number \in 0..(MaxNumber + 1) :
           StoreChainBlock(form, number)

SpecStore == Init /\ [][NextStore]_vars

(* ----------------------- a store whose Put fails ----------------------- *)

\* log.Crit(msg, ...) returns to its caller: never, it logs and ends the
\* process
CritReturns == FALSE

\* WriteBlock(db, block) over a store whose Put fails if fails says so: the
\* store after it, whether it returned, and the error it returned
WriteBlockCall(store, block, fails) ==
    IF fails
    THEN [store |-> store, returned |-> CritReturns, err |-> ErrNil]
    ELSE [store |-> WriteBlock(store, block), returned |-> TRUE, err |-> ErrNil]

\* WriteLastObserverBlockHash(db, hash) over such a store
WriteLastObserverBlockHashCall(store, hash, fails) ==
    IF fails
    THEN [store |-> store, returned |-> CritReturns, err |-> ErrNil]
    ELSE [store |-> WriteLastObserverBlockHash(store, hash), returned |-> TRUE,
          err |-> ErrNil]

\* NewChain(db, privKey) whose Put of the first block (fault "block") or of
\* its hash (fault "hash") fails: the process ends inside WriteBlock or
\* inside WriteLastObserverBlockHash and nothing is returned
FaultNewChain(privKey, fault) ==
    /\ \A c \in Callers : pc[c] = "idle"
    /\ LET stored == GetBlock(db, 0)
           fb == IF stored = NoBlock THEN NewBlock(privKey, now) ELSE stored
           w == WriteBlockCall(db, fb, fault = "block")
           l == WriteLastObserverBlockHashCall(w.store, Hash(fb), fault = "hash")
       IN /\ ~w.returned \/ ~l.returned
          /\ db' = IF w.returned THEN l.store ELSE w.store
          /\ fate' = [op |-> "NewChain", putFailed |-> TRUE, returned |-> FALSE,
                      err |-> ErrNil, chain |-> FALSE]
    /\ open' = FALSE
    /\ firstBlock' = NoBlock
    /\ currentBlock' = NoBlock
    /\ privateKey' = "none"
    /\ trieStatus' = unlocked
    /\ fromEmpty' = FALSE
    /\ loc' = [c \in Callers |-> NoLoc]
    /\ handle' = [c \in Callers |-> NoTrie]
    /\ ret' = [c \in Callers |-> NoRet]
    /\ holders' = {}
    /\ lockIssued' = FALSE
    /\ released' = FALSE
    /\ UNCHANGED <<objVars, trieVars, codeVars, blk, made, looked, now, pc, firstHashes>>

\* WriteBlock(db, b) called by the user of a chain, for a new block of number
\* 0 or for the successor of the first block, over a store whose Put may fail;
\* a failing Put ends the process and the chain with it
FaultWriteBlock(privKey, successor, fails) ==
    /\ open
    /\ \A c \in Callers : pc[c] = "idle"
    /\ LET b == IF successor THEN CreateSuccessor(firstBlock, ZeroHash, privKey, now)
                ELSE NewBlock(privKey, now)
           w == WriteBlockCall(db, b, fails)
       IN /\ db' = w.store
          /\ fate' = [op |-> "WriteBlock", putFailed |-> fails, returned |-> w.returned,
                      err |-> w.err, chain |-> w.returned]
          /\ open' = w.returned
          /\ firstBlock' = IF w.returned THEN firstBlock ELSE NoBlock
          /\ currentBlock' = IF w.returned THEN currentBlock ELSE NoBlock
          /\ privateKey' = IF w.returned THEN privateKey ELSE "none"
          /\ fromEmpty' = (w.returned /\ fromEmpty)
    /\ UNCHANGED <<objVars, trieVars, codeVars, blk, made, looked, now, pc, loc, handle,
                   ret, holders, lockIssued, released, trieStatus, firstHashes>>

\* a chain and its user over a store whose Put may fail
NextFault ==
    \/ Tick
    \/ \E k \in PrivKeys : NewChain(k)
    \/ \E k \in PrivKeys, fault \in {"block", "hash"} : FaultNewChain(k, fault)
    \/ \E k \in PrivKeys, successor, fails \in BOOLEAN : FaultWriteBlock(k, successor, fails)

SpecFault == Init /\ [][NextFault]_vars

(* ------------------- a chain over a store it finds --------------------- *)

\* the root of a trie with one entry
FoundRoot == TrieHash([k \in TrieKeys |-> CHOOSE v \in TrieValues : TRUE])

\* a store as an earlier run and the callers of WriteBlock and
\* WriteLastObserverBlockHash left it: block 0 with the trie root root, the
\* blocks up to number n after it, each the successor of the one before,
\* the hash of block head under the last block key, and the node of the
\* root when held says so
FoundStore(root, n, head, held) ==
    LET first == sign([PrevHash |-> ZeroHash, Number |-> 0, UnixTime |-> 1,
                       TrieRoot |-> root, SignatureType |-> "ECDSA",
                       Signature |-> NoBytes], StoreKey)
        chain[i \in 0..n] ==
            IF i = 0 THEN first ELSE CreateSuccessor(chain[i - 1], root, StoreKey, 1)
        blocks[i \in 0..n] ==
            IF i = 0 THEN WriteBlock(<<>>, first) ELSE WriteBlock(blocks[i - 1], chain[i])
        headed == WriteLastObserverBlockHash(blocks[n], Hash(chain[head]))
    IN IF held /\ root # ZeroHash
       THEN DbPut(headed, <<"node", root>>, [k \in TrieKeys |-> CHOOSE v \in TrieValues : TRUE])
       ELSE headed

\* no chain has been built in this run, the store is found as it is
InitReopen ==
    /\ StoreInit
    /\ TrieInit
    /\ CodeInit
    /\ ObjInit
    /\ CtlInit
    /\ \E root \in {ZeroHash, FoundRoot}, n \in 0..MaxNumber, held \in BOOLEAN :
          \E head \in 0..n : db = FoundStore(root, n, head, held)

\* the chain built on such a store and the callers of its trie lock
NextReopen ==
    \/ \E k \in PrivKeys : NewChain(k)
    \/ \E c \in Callers : LockLoad(c, "lock")
    \/ \E c \in Callers : LockStore(c)
    \/ \E c \in Callers : LockOpen(c)
    \/ \E c \in Callers : LockFail(c)
    \/ \E c \in Callers : UnlockTrie(c)

SpecReopen == InitReopen /\ [][NextReopen]_vars

(* ---------------------- readers of a stored chain ---------------------- *)

\* what a store may hold under a block key: the encoding of a block, with
\* statements or without, or bytes that are not one (a list of one field, a
\* pair whose header lacks fields, a pair with a statement that lacks
\* fields)
StoredBlocks ==
    {NewBlockWithStatements(stmts, StoreKey, 1) : stmts \in StmtLists}
BlockData == {EncodeRLP(b) : b \in StoredBlocks}
BadBlockData ==
    {<<0>>, <<<<ZeroHash, 0>>, <<>>>>,
     <<HeaderEncodeRLP(NewBlockWithStatements(<<>>, StoreKey, 1).header), <<<<0>>>>>>}

\* what a store may hold under a statement lookup key: the encoding of a
\* StmtLookupEntry, or bytes that are not one (lists of one and of three
\* fields)
EntryData == {<<n, i>> : n \in 0..MaxNumber, i \in 0..2}
BadEntryData == {<<0>>, <<0, 0, 0>>}

\* the statement keys that are looked up
LookupKeys == {<<102, 111, 111>>}

\* the stores a reader may find: under each key nothing, no bytes, bytes
\* that decode or bytes that do not
ReadStores ==
    LET blockKeys == {mkBlockKey(n) : n \in 0..MaxNumber}
        entryKeys == {mkStmtLookupKey(k) : k \in LookupKeys}
        blocks == UNION {[held -> BlockData \cup BadBlockData \cup {NoBytes}] :
                            held \in SUBSET blockKeys}
        entries == UNION {[held -> EntryData \cup BadEntryData \cup {NoBytes}] :
                             held \in SUBSET entryKeys}
    IN {f @@ g : f \in blocks, g \in entries}

\* GetBlock(db, number)
ReadBlock(number) ==
    /\ LET b == GetBlock(db, number)
       IN looked' = [op |-> "getBlock", number |-> number,
                     data |-> DbGet(db, mkBlockKey(number)),
                     isNil |-> (b = NoBlock), block |-> b]
    /\ UNCHANGED <<objVars, db, now, ctlVars, blk, made, fate, trieVars, codeVars>>

\* GetStmtLookupEntry(db, key)
ReadStmtLookupEntry(key) ==
    /\ LET r == GetStmtLookupEntry(db, key)
       IN looked' = [op |-> "getEntry", key |-> key,
                     data |-> DbGet(db, mkStmtLookupKey(key)),
                     number |-> r.number, index |-> r.index, ok |-> r.ok]
    /\ UNCHANGED <<objVars, db, now, ctlVars, blk, made, fate, trieVars, codeVars>>

\* GetStatement(db, key)
ReadStatement(key) ==
    /\ LET r == GetStatement(db, key)
       IN looked' = [op |-> "getStatement", key |-> key, stmt |-> r.stmt,
                     number |-> r.number, index |-> r.index]
    /\ UNCHANGED <<objVars, db, now, ctlVars, blk, made, fate, trieVars, codeVars>>

\* a store found as it is
InitRead ==
    /\ StoreInit
    /\ TrieInit
    /\ CodeInit
    /\ ObjInit
    /\ CtlInit
    /\ db \in ReadStores

NextRead ==
    \/ \E number \in 0..MaxNumber : ReadBlock(number)
    \/ \E key \in LookupKeys : ReadStmtLookupEntry(key)
    \/ \E key \in LookupKeys : ReadStatement(key)

SpecRead == InitRead /\ [][NextRead]_vars

(* --------------------------- trie database ----------------------------- *)

\* the pointers reachable from the list of past tries, from the handles of
\* the callers and from the locals of the running calls
Live(list, handles, locals) ==
    ({list[i] : i \in 1..Len(list)}
        \cup {handles[c] : c \in Callers}
        \cup {locals[c].t : c \in Callers}
        \cup UNION {{locals[c].seen[i] : i \in 1..Len(locals[c].seen)} : c \in Callers})
    \ {NoHandle}

\* the garbage collector: an object no pointer reaches is gone
Collect(heap, live) == [p \in DOMAIN heap \cap live |-> heap[p]]

\* the pointer of the object allocated for the n-th direct call of pushTrie
PushPointer(n) == <<"push", n>>

\* the pointer of the object allocated for the handle OpenTrie returns to c:
\* the objects of c that are still alive were pushed by a commit of c, so
\* the count of those pushes tells the new object from them
NewPointer(c) ==
    <<c, Cardinality({i \in 1..Len(pushed) : pushed[i].t[1] = c})>>

\* OpenTrie, lines 448-452: the scan of the past tries from the newest to
\* the oldest for one whose Hash() is the root; 0 when there is none
CacheScan(list, heap, root) ==
    LET hits == {i \in 1..Len(list) : TrieHash(heap[list[i]]) = root}
    IN IF hits = {} THEN 0 ELSE CHOOSE i \in hits : \A j \in hits : j <= i

\* the trie of the n-th call of pushTrie made directly
PushContent(n) == [k \in TrieKeys |-> n]
PushRoot(n) == TrieHash(PushContent(n))

\* OpenTrie, line 446: the call takes the mutex
OpenLock(c, root) ==
    /\ tpc[c] = "idle"
    /\ mu = "free"
    /\ mu' = c
    /\ tloc' = [tloc EXCEPT ![c] = [NoTLoc EXCEPT !.root = root]]
    /\ tpc' = [tpc EXCEPT ![c] = "scan"]
    /\ UNCHANGED <<objVars, codeVars, db, now, ctlVars, storeVars, tries, pastTries, th, tret, pushed, issued>>

\* an OpenTrie that moves the trie it found to the newest place of the list
OpenScan_MoveToBack(c) ==
    /\ tpc[c] = "scan"
    /\ LET i == CacheScan(pastTries, tries, tloc[c].root)
       IN IF i # 0
          THEN LET p == NewPointer(c)
                   handles == [th EXCEPT ![c] = p]
                   locals == [tloc EXCEPT ![c] = NoTLoc]
               IN /\ th' = handles
                  /\ tloc' = locals
                  /\ pastTries' = SubSeq(pastTries, 1, i - 1)
                                    \o SubSeq(pastTries, i + 1, Len(pastTries))
                                    \o <<pastTries[i]>>
                  /\ tries' = Collect((p :> tries[pastTries[i]]) @@ tries,
                                      Live(pastTries, handles, locals))
                  /\ tret' = [tret EXCEPT ![c] = [op |-> "open", hit |-> TRUE,
                                                  err |-> ErrNil]]
                  /\ mu' = "free"
                  /\ tpc' = [tpc EXCEPT ![c] = "idle"]
          ELSE /\ tpc' = [tpc EXCEPT ![c] = "read"]
               /\ UNCHANGED <<tries, pastTries, mu, tloc, th, tret>>
    /\ UNCHANGED <<objVars, codeVars, db, now, ctlVars, storeVars, pushed, issued>>

\* OpenTrie, lines 448-452: on a hit the caller is returned a Copy() of the
\* cached trie and the deferred Unlock runs; on a miss the call goes on to
\* trie.NewSecure with the mutex still held
OpenScan(c) ==
    /\ tpc[c] = "scan"
    /\ LET i == CacheScan(pastTries, tries, tloc[c].root)
       IN IF i # 0
          THEN LET p == NewPointer(c)
                   handles == [th EXCEPT ![c] = p]
                   locals == [tloc EXCEPT ![c] = NoTLoc]
               IN /\ th' = handles
                  /\ tloc' = locals
                  /\ pastTries' = pastTries
                  /\ tries' = Collect((p :> tries[pastTries[i]]) @@ tries,
                                      Live(pastTries, handles, locals))
                  /\ tret' = [tret EXCEPT ![c] = [op |-> "open", hit |-> TRUE,
                                                  err |-> ErrNil]]
                  /\ mu' = "free"
                  /\ tpc' = [tpc EXCEPT ![c] = "idle"]
          ELSE /\ tpc' = [tpc EXCEPT ![c] = "read"]
               /\ UNCHANGED <<tries, pastTries, mu, tloc, th, tret>>
    /\ UNCHANGED <<objVars, codeVars, db, now, ctlVars, storeVars, pushed, issued>>

\* an OpenTrie that answers a failed trie.NewSecure with an empty trie and
\* no error
OpenRead_TrieOnFailure(c) ==
    /\ tpc[c] = "read"
    /\ LET tr == TrieNew(tloc[c].root, db)
           p == NewPointer(c)
           handles == [th EXCEPT ![c] = p]
           locals == [tloc EXCEPT ![c] = NoTLoc]
       IN /\ th' = handles
          /\ tloc' = locals
          /\ tries' = Collect((p :> tr.content) @@ tries,
                              Live(pastTries, handles, locals))
          /\ tret' = [tret EXCEPT ![c] = [op |-> "open", hit |-> FALSE, err |-> ErrNil]]
    /\ mu' = "free"
    /\ tpc' = [tpc EXCEPT ![c] = "idle"]
    /\ UNCHANGED <<objVars, codeVars, db, now, ctlVars, storeVars, pastTries, pushed, issued>>

\* OpenTrie, lines 453-457: trie.NewSecure(root, tdb.db, MaxTrieCacheGen)
\* reads the root node from the store; the deferred Unlock runs at the return
OpenRead(c) ==
    /\ tpc[c] = "read"
    /\ LET tr == TrieNew(tloc[c].root, db)
           p == NewPointer(c)
           handles == [th EXCEPT ![c] = IF tr.err = ErrNil THEN p ELSE NoHandle]
           locals == [tloc EXCEPT ![c] = NoTLoc]
       IN /\ th' = handles
          /\ tloc' = locals
          /\ tries' = Collect(IF tr.err = ErrNil THEN (p :> tr.content) @@ tries ELSE tries,
                              Live(pastTries, handles, locals))
          /\ tret' = [tret EXCEPT ![c] = [op |-> "open", hit |-> FALSE, err |-> tr.err]]
    /\ mu' = "free"
    /\ tpc' = [tpc EXCEPT ![c] = "idle"]
    /\ UNCHANGED <<objVars, codeVars, db, now, ctlVars, storeVars, pastTries, pushed, issued>>

\* Trie.TryUpdate through the handle OpenTrie returned
TrieTryUpdate(c, k, v) ==
    /\ tpc[c] = "idle"
    /\ th[c] # NoHandle
    /\ tries' = [tries EXCEPT ![th[c]] = (k :> v) @@ tries[th[c]]]
    /\ UNCHANGED <<objVars, codeVars, db, now, ctlVars, storeVars, pastTries, mu, tpc, tloc, th, tret,
                   pushed, issued>>

\* cachedTrie.CommitTo: SecureTrie.CommitTo writes the nodes of the trie;
\* when that succeeded the handle's own SecureTrie goes to pushTrie
CommitTo(c, ok) ==
    /\ tpc[c] = "idle"
    /\ th[c] # NoHandle
    /\ issued < MaxCommits
    /\ LET content == tries[th[c]]
           root == TrieHash(content)
       IN IF ok
          THEN /\ db' = IF content = EmptyContent THEN db
                        ELSE DbPut(db, <<"node", root>>, content)
               /\ tloc' = [tloc EXCEPT ![c] = [NoTLoc EXCEPT !.t = th[c]]]
               /\ tpc' = [tpc EXCEPT ![c] = "pushlock"]
               /\ issued' = issued + 1
               /\ tret' = [tret EXCEPT ![c] = [op |-> "commit", err |-> ErrNil]]
          ELSE /\ tret' = [tret EXCEPT ![c] = [op |-> "commit", err |-> "write failed"]]
               /\ UNCHANGED <<db, tloc, tpc, issued>>
    /\ UNCHANGED <<objVars, codeVars, now, ctlVars, storeVars, tries, pastTries, mu, th, pushed>>

\* a call on the trie database that takes no commits may start
CallStart(c) ==
    (issued < MaxPushes - RacePushes) => \A d \in Callers \ {c} : tpc[d] = "idle"

\* pushTrie(t) called with a trie of its own that nothing else points to
CallPushTrie(c) ==
    /\ tpc[c] = "idle"
    /\ issued < MaxPushes
    /\ CallStart(c)
    /\ LET p == PushPointer(issued + 1)
       IN /\ tries' = (p :> PushContent(issued + 1)) @@ tries
          /\ tloc' = [tloc EXCEPT ![c] = [NoTLoc EXCEPT !.t = p]]
    /\ tpc' = [tpc EXCEPT ![c] = "pushlock"]
    /\ issued' = issued + 1
    /\ UNCHANGED <<objVars, codeVars, db, now, ctlVars, storeVars, pastTries, mu, th, tret, pushed>>

\* a pushTrie that goes on without the mutex
PushLock_NoMutex(c) ==
    /\ tpc[c] = "pushlock"
    /\ tpc' = [tpc EXCEPT ![c] = "pushread"]
    /\ UNCHANGED <<objVars, codeVars, db, now, ctlVars, storeVars, tries, pastTries, mu, tloc, th, tret,
                   pushed, issued>>

\* pushTrie, line 500: tdb.mu.Lock()
PushLock(c) ==
    /\ tpc[c] = "pushlock"
    /\ mu = "free"
    /\ mu' = c
    /\ tpc' = [tpc EXCEPT ![c] = "pushread"]
    /\ UNCHANGED <<objVars, codeVars, db, now, ctlVars, storeVars, tries, pastTries, tloc, th, tret,
                   pushed, issued>>

\* pushTrie, line 502: the list is read
PushRead(c) ==
    /\ tpc[c] = "pushread"
    /\ tloc' = [tloc EXCEPT ![c].seen = pastTries]
    /\ tpc' = [tpc EXCEPT ![c] = "pushwrite"]
    /\ UNCHANGED <<objVars, codeVars, db, now, ctlVars, storeVars, tries, pastTries, mu, th, tret,
                   pushed, issued>>

\* a pushTrie that overwrites the newest trie of a full list
PushWrite_OverwritesNewest(c) ==
    /\ tpc[c] = "pushwrite"
    /\ LET seen == tloc[c].seen
           t == tloc[c].t
           list == IF Len(seen) >= maxPastTries
                   THEN Append(SubSeq(seen, 1, Len(seen) - 1), t)
                   ELSE Append(seen, t)
           locals == [tloc EXCEPT ![c] = NoTLoc]
       IN /\ pastTries' = list
          /\ tloc' = locals
          /\ pushed' = Append(pushed, [t |-> t, root |-> TrieHash(tries[t])])
          /\ tries' = Collect(tries, Live(list, th, locals))
    /\ mu' = "free"
    /\ tpc' = [tpc EXCEPT ![c] = "idle"]
    /\ UNCHANGED <<objVars, codeVars, db, now, ctlVars, storeVars, th, tret, issued>>

\* pushTrie, lines 502-507: a full list is shifted by one and t takes the
\* last place, otherwise t is appended; the deferred Unlock runs
PushWrite(c) ==
    /\ tpc[c] = "pushwrite"
    /\ LET seen == tloc[c].seen
           t == tloc[c].t
           list == IF Len(seen) >= maxPastTries
                   THEN Append(Tail(seen), t)
                   ELSE Append(seen, t)
           locals == [tloc EXCEPT ![c] = NoTLoc]
       IN /\ pastTries' = list
          /\ tloc' = locals
          /\ pushed' = Append(pushed, [t |-> t, root |-> TrieHash(tries[t])])
          /\ tries' = Collect(tries, Live(list, th, locals))
    /\ mu' = "free"
    /\ tpc' = [tpc EXCEPT ![c] = "idle"]
    /\ UNCHANGED <<objVars, codeVars, db, now, ctlVars, storeVars, th, tret, issued>>

\* the roots asked of a trie database that takes no commits: the empty
\* root, the root pushed first and the root pushed last
CacheRoots == {EmptyRootHash, PushRoot(1), PushRoot(issued)}

\* OpenTrie(root) called on the trie database that takes no commits
CallOpenTrie(c, root) ==
    /\ CallStart(c)
    /\ OpenLock(c, root)

NextCache ==
    \/ \E c \in Callers : CallPushTrie(c)
    \/ \E c \in Callers : PushLock(c)
    \/ \E c \in Callers : PushRead(c)
    \/ \E c \in Callers : PushWrite(c)
    \/ \E c \in Callers, root \in CacheRoots : CallOpenTrie(c, root)
    \/ \E c \in Callers : OpenScan(c)
    \/ \E c \in Callers : OpenRead(c)

SpecCache == Init /\ [][NextCache]_vars

\* the roots asked of a trie database that takes commits
TrieRoots == {EmptyRootHash} \cup {TrieHash(k :> v) : k \in TrieKeys, v \in 1..MaxVal}

NextTrie ==
    \/ \E c \in Callers, root \in TrieRoots : OpenLock(c, root)
    \/ \E c \in Callers : OpenScan(c)
    \/ \E c \in Callers : OpenRead(c)
    \/ \E c \in Callers, k \in TrieKeys, v \in 1..MaxVal : TrieTryUpdate(c, k, v)
    \/ \E c \in Callers, ok \in BOOLEAN : CommitTo(c, ok)
    \/ \E c \in Callers : PushLock(c)
    \/ \E c \in Callers : PushRead(c)
    \/ \E c \in Callers : PushWrite(c)

SpecTrie == Init /\ [][NextTrie]_vars

(* ------------------------- contract code sizes ------------------------- *)

\* the contract codes a store may hold, each under its hash
Codes == {<<>>, <<96>>, <<96, 0>>}
CodeHashes == {Keccak256(code) : code \in Codes}

\* the stores holding some of the codes
CodeStores == {[h \in held |-> h[2]] : held \in SUBSET CodeHashes}

\* tdb.db.Get(codeHash[:]): an error for a key that is not there and for a
\* read that fails
CodeGet(store, key, fault) ==
    IF fault THEN [data |-> NoBytes, err |-> "read failed"]
    ELSE IF key \notin DOMAIN store THEN [data |-> NoBytes, err |-> "not found"]
    ELSE [data |-> store[key], err |-> ErrNil]

\* a ContractCode that adds the length to the cache whatever Get returned
ContractCode_CachesFailure(store, cache, codeHash, fault) ==
    LET r == CodeGet(store, codeHash, fault)
    IN [code |-> r.data, err |-> r.err,
        cache |-> (codeHash :> Len(r.data)) @@ cache]

\* ContractCode: the code, the error and the cache after the call
ContractCode(store, cache, codeHash, fault) ==
    LET r == CodeGet(store, codeHash, fault)
    IN [code |-> r.data, err |-> r.err,
        cache |-> IF r.err = ErrNil THEN (codeHash :> Len(r.data)) @@ cache ELSE cache]

\* ContractCodeSize: the size, the error, the cache after the call and
\* whether the store was read
ContractCodeSize(store, cache, codeHash, fault) ==
    IF codeHash \in DOMAIN cache
    THEN [size |-> cache[codeHash], err |-> ErrNil, cache |-> cache, read |-> FALSE]
    ELSE LET r == ContractCode(store, cache, codeHash, fault)
         IN [size |-> Len(r.code), err |-> r.err, read |-> TRUE,
             cache |-> IF r.err = ErrNil THEN (codeHash :> Len(r.code)) @@ r.cache
                       ELSE r.cache]

\* a call of ContractCode(addrHash, codeHash)
CallContractCode(codeHash, fault) ==
    /\ LET r == ContractCode(db, codeSizeCache, codeHash, fault)
       IN /\ codeSizeCache' = r.cache
          /\ cret' = [op |-> "code", hash |-> codeHash, size |-> Len(r.code),
                      err |-> r.err, read |-> TRUE, added |-> (r.cache # codeSizeCache)]
    /\ UNCHANGED <<objVars, db, now, ctlVars, storeVars, trieVars>>

\* a call of ContractCodeSize(addrHash, codeHash)
CallContractCodeSize(codeHash, fault) ==
    /\ LET r == ContractCodeSize(db, codeSizeCache, codeHash, fault)
       IN /\ codeSizeCache' = r.cache
          /\ cret' = [op |-> "size", hash |-> codeHash, size |-> r.size,
                      err |-> r.err, read |-> r.read, added |-> (r.cache # codeSizeCache)]
    /\ UNCHANGED <<objVars, db, now, ctlVars, storeVars, trieVars>>

\* a trie database over a store that holds some contract codes
InitCode ==
    /\ StoreInit
    /\ TrieInit
    /\ CodeInit
    /\ ObjInit
    /\ CtlInit
    /\ db \in CodeStores

NextCode ==
    \/ \E codeHash \in CodeHashes, fault \in BOOLEAN : CallContractCode(codeHash, fault)
    \/ \E codeHash \in CodeHashes, fault \in BOOLEAN : CallContractCodeSize(codeHash, fault)

SpecCode == InitCode /\ [][NextCode]_vars

(* ------------------------- statement objects --------------------------- *)

\* what the arrays behind the arguments of NewStatement start with, and the
\* byte their owner writes into them later
ArgBytes == <<<<102, 111, 111>>, <<98, 97, 114>>>>
WriteByte == 120

\* a byte slice: the array it points into and its length; the nil slice
NilSlice == [arr |-> <<"nil", 0>>, len |-> 0]

\* the bytes a slice shows
SliceBytes(heap, sl) ==
    IF sl = NilSlice THEN NoBytes ELSE SubSeq(heap[sl.arr], 1, sl.len)

\* common.CopyBytes(sl) with the new array at address a: nil for nil
CopyBytes(heap, sl, a) ==
    IF sl = NilSlice
    THEN [heap |-> heap, slice |-> NilSlice]
    ELSE [heap |-> (a :> SliceBytes(heap, sl)) @@ heap,
          slice |-> [arr |-> a, len |-> sl.len]]

\* a newStatement that keeps the slices it is handed
newStatement_NoCopy(heap, args) ==
    [heap |-> heap,
     stmt |-> [data |-> args, V |-> 0, R |-> 0, S |-> 0,
               hash |-> NoHash, size |-> NoSize]]

\* newStatement(key, value) and newStatement(data): the fields are copies of
\* the arguments that are not empty, the caches are empty
newStatement(heap, args) ==
    LET copied == {i \in 1..Len(args) : args[i].len > 0}
    IN [heap |-> [a \in {<<"st", i>> : i \in copied} |-> SliceBytes(heap, args[a[2]])]
                 @@ heap,
        stmt |-> [data |-> [i \in 1..Len(args) |->
                               IF i \in copied
                               THEN [arr |-> <<"st", i>>, len |-> args[i].len]
                               ELSE args[i]],
                  V |-> 0, R |-> 0, S |-> 0, hash |-> NoHash, size |-> NoSize]]

\* var s Statement: the zero value, with one or two byte fields
ZeroStatement(n) ==
    [data |-> [i \in 1..n |-> NilSlice], V |-> 0, R |-> 0, S |-> 0,
     hash |-> NoHash, size |-> NoSize]

\* the keyValue or the payload of a Statement object
StatementValue(heap, s) ==
    IF Len(s.data) = 1
    THEN [Payload |-> SliceBytes(heap, s.data[1]), V |-> s.V, R |-> s.R, S |-> s.S]
    ELSE [Key |-> SliceBytes(heap, s.data[1]), Value |-> SliceBytes(heap, s.data[2]),
          V |-> s.V, R |-> s.R, S |-> s.S]

\* Statement.Key, Statement.Value, Statement.Payload: a copy of field i
StatementField(heap, s, i) == CopyBytes(heap, s.data[i], <<"ret", 0>>)

\* Statement.Hash: the cached hash, or the hash of the encoding, cached
StatementHash(heap, s) ==
    IF s.hash # NoHash
    THEN [hash |-> s.hash, stmt |-> s]
    ELSE LET h == Keccak256(StatementEncodeRLP(StatementValue(heap, s)))
         IN [hash |-> h, stmt |-> [s EXCEPT !.hash = h]]

\* Statement.DecodeRLP on the object s: the fields are loaded into new
\* arrays, the size is stored, the cached hash stays
StatementLoad(heap, s, data) ==
    LET v == StatementDecodeRLP(data)
        fields == IF "Payload" \in DOMAIN v THEN <<v.Payload>> ELSE <<v.Key, v.Value>>
    IN [heap |-> [a \in {<<"tst", i>> : i \in 1..Len(fields)} |-> fields[a[2]]] @@ heap,
        stmt |-> [s EXCEPT !.data = [i \in 1..Len(fields) |->
                                       [arr |-> <<"tst", i>>, len |-> Len(fields[i])]],
                           !.V = v.V, !.R = v.R, !.S = v.S,
                           !.size = StatementSize(v)]]

\* the state outside the Statement objects
stmtFrame == <<db, now, ctlVars, storeVars, trieVars, codeVars, blockVars>>

\* the arrays at the addresses of one kind
Arrays(heap, kinds) == [a \in {x \in DOMAIN heap : x[1] \in kinds} |-> heap[a]]

\* st := NewStatement(key, value) or NewStatement(payload); argument i is nil
\* for caps[i] < 0, else the first lens[i] bytes of an array of caps[i] bytes.
\* The caller drops what the accessors of the Statement before returned.
CallNewStatement(caps, lens) ==
    LET n == Len(caps)
        args == [i \in 1..n |-> IF caps[i] < 0 THEN NilSlice
                                 ELSE [arr |-> <<"arg", i>>, len |-> lens[i]]]
        heap == [a \in {<<"arg", i>> : i \in {j \in 1..n : caps[j] >= 0}} |->
                    SubSeq(ArgBytes[a[2]], 1, caps[a[2]])]
                @@ Arrays(mem, {"tst"})
        r == newStatement(heap, args)
    IN /\ mem' = r.heap
       /\ st' = r.stmt
       /\ given' = [i \in 1..n |-> SliceBytes(heap, args[i])]
       /\ sret' = NoRet
       /\ UNCHANGED <<buf, tst, decoded, stmtFrame>>

\* the caller writes into an array it holds: one behind an argument of
\* NewStatement or the one behind a slice an accessor returned
CallerWrite(a, i) ==
    /\ a \in DOMAIN mem
    /\ a[1] \in {"arg", "ret"}
    /\ i \in 1..Len(mem[a])
    /\ mem[a][i] # WriteByte
    /\ mem' = [mem EXCEPT ![a][i] = WriteByte]
    /\ UNCHANGED <<st, given, sret, buf, tst, decoded, stmtFrame>>

\* st.Key(), st.Value() or st.Payload()
CallField(i) ==
    /\ st # NoStatement
    /\ i \in 1..Len(st.data)
    /\ LET r == StatementField(Arrays(mem, {"arg", "st", "tst"}), st, i)
       IN /\ mem' = r.heap
          /\ sret' = [op |-> "field", i |-> i, slice |-> r.slice,
                      bytes |-> SliceBytes(r.heap, r.slice)]
    /\ UNCHANGED <<st, given, buf, tst, decoded, stmtFrame>>

\* st.Hash() or tst.Hash()
CallHash(o) ==
    /\ (IF o = "st" THEN st ELSE tst) # NoStatement
    /\ LET r == StatementHash(mem, IF o = "st" THEN st ELSE tst)
       IN /\ st' = IF o = "st" THEN r.stmt ELSE st
          /\ tst' = IF o = "st" THEN tst ELSE r.stmt
    /\ UNCHANGED <<mem, given, sret, buf, decoded, stmtFrame>>

\* st.EncodeRLP(&buf) into an empty buffer
CallEncodeRLP ==
    /\ st # NoStatement
    /\ buf' = StatementEncodeRLP(StatementValue(mem, st))
    /\ UNCHANGED <<mem, st, given, sret, tst, decoded, stmtFrame>>

\* tst.DecodeRLP(rlp.NewStream(&buf, 0)), tst being a new var tst Statement
\* or the Statement loaded before
CallDecodeRLP(fresh) ==
    /\ buf # NoBytes
    /\ fresh \/ (tst # NoStatement /\ Len(tst.data) = Len(buf) - 3)
    /\ LET r == StatementLoad(Arrays(mem, {"arg", "st", "ret"}),
                              IF fresh THEN ZeroStatement(Len(buf) - 3) ELSE tst, buf)
       IN /\ mem' = r.heap
          /\ tst' = r.stmt
    /\ decoded' = [op |-> "decode", fresh |-> fresh, from |-> buf]
    /\ UNCHANGED <<st, given, sret, buf, stmtFrame>>

\* the arguments NewStatement is called with: nil, or a slice of an array
ArgCaps == -1..MaxLen
ArgLens(caps) ==
    {lens \in [1..Len(caps) -> 0..MaxLen] :
        \A i \in 1..Len(caps) : lens[i] <= caps[i] \/ (caps[i] < 0 /\ lens[i] = 0)}
WholeLens(caps) == [i \in 1..Len(caps) |-> IF caps[i] < 0 THEN 0 ELSE caps[i]]

\* a user that builds statements, encodes them and decodes them
NextStmt ==
    \/ \E n \in 1..2 : \E caps \in [1..n -> ArgCaps] :
           CallNewStatement(caps, WholeLens(caps))
    \/ \E o \in {"st", "tst"} : CallHash(o)
    \/ CallEncodeRLP
    \/ \E fresh \in BOOLEAN : CallDecodeRLP(fresh)

SpecStmt == Init /\ [][NextStmt]_vars

\* a user that builds statements, reads their fields and writes into the
\* arrays it holds
NextAlias ==
    \/ \E n \in 1..2 : \E caps \in [1..n -> ArgCaps] : \E lens \in ArgLens(caps) :
           CallNewStatement(caps, lens)
    \/ \E a \in DOMAIN mem : \E i \in 1..MaxLen : CallerWrite(a, i)
    \/ \E i \in 1..2 : CallField(i)
    \/ CallHash("st")

SpecAlias == Init /\ [][NextAlias]_vars

(* --------------------------- block objects ----------------------------- *)

\* the keys blocks are built with and the keys Sign is called with
MakeKeys == {StoreKey} \cup BadKeys
SignKeys == PrivKeys \cup BadKeys

\* a nil *Header
NilHeader == <<"nil">>

\* the pointer to the Header or to the blockData of a Block object
HeaderPtr(b) == IF "data" \in DOMAIN b THEN b.data ELSE b.header

\* Header.hash of either Header, blockData.hash
AnyHeaderHash(h) == IF "Time" \in DOMAIN h THEN HeaderHash(h) ELSE blockDataHash(h)

\* the Block object around the value v, its Header or blockData at pointer p
BlockObject(v, p) ==
    IF "data" \in DOMAIN v THEN [data |-> p, hash |-> NoHash, size |-> NoSize]
    ELSE IF "statements" \in DOMAIN v
         THEN [header |-> p, statements |-> v.statements, hash |-> NoHash,
               size |-> NoSize]
         ELSE [header |-> p, hash |-> NoHash, size |-> NoSize]

\* the header and the statements of a Block object that keeps statements
BlockValue(heap, b) == [header |-> heap[b.header], statements |-> b.statements]

\* Block.Hash: the cached hash, or the hash of the header, cached
BlockObjHash(heap, b) ==
    IF b.hash # NoHash
    THEN [hash |-> b.hash, block |-> b]
    ELSE LET h == AnyHeaderHash(heap[HeaderPtr(b)])
         IN [hash |-> h, block |-> [b EXCEPT !.hash = h]]

\* the bytes of the encoding of a Header and of a Block
HeaderSize(h) ==
    ListSize(33 + IntSize(h.Number) + IntSize(h.Time) + 33 + 6
             + (IF h.Signature = NoBytes THEN 1 ELSE 67))
RECURSIVE StatementsSize(_)
StatementsSize(stmts) ==
    IF Len(stmts) = 0 THEN 0
    ELSE StatementSize(Head(stmts)) + StatementsSize(Tail(stmts))
BlockSize(v) == ListSize(HeaderSize(v.header) + ListSize(StatementsSize(v.statements)))

\* Block.Size: the cached size, or the bytes counted while the Block is
\* encoded, cached
BlockObjSize(heap, b) ==
    IF b.size # NoSize
    THEN [size |-> b.size, block |-> b]
    ELSE LET n == BlockSize(BlockValue(heap, b))
         IN [size |-> n, block |-> [b EXCEPT !.size = n]]

\* Stream.Kind at the start of the encoding of a Block: the bytes of the
\* content of the outer list, which are the encoded header and the list of
\* the encoded statements
StreamKindSize(data) ==
    LET hd == data[1]
        sts == data[2]
        stBytes(d) ==
            ListSize((IF Len(d) = 4 THEN BytesSize(d[1])
                      ELSE BytesSize(d[1]) + BytesSize(d[2]))
                     + IntSize(d[Len(d) - 2]) + IntSize(d[Len(d) - 1]) + IntSize(d[Len(d)]))
        total[i \in 0..Len(sts)] ==
            IF i = 0 THEN 0 ELSE total[i - 1] + stBytes(sts[i])
    IN ListSize(33 + IntSize(hd[2]) + IntSize(hd[3]) + 33 + 6
                + (IF hd[6] = NoBytes THEN 1 ELSE 67))
       + ListSize(total[Len(sts)])

\* a Block.DecodeRLP that keeps the statements the Block had
BlockLoad_KeepsStatements(heap, b, data) ==
    LET enc == BlockDecodeRLP(data)
    IN [heap |-> (<<"tb">> :> enc.header) @@ heap,
        block |-> [b EXCEPT !.header = <<"tb">>,
                            !.size = ListSize(StreamKindSize(data))]]

\* a Block.DecodeRLP that stores the size Stream.Kind returned as it is
BlockLoad_ContentSize(heap, b, data) ==
    LET enc == BlockDecodeRLP(data)
    IN [heap |-> (<<"tb">> :> enc.header) @@ heap,
        block |-> [b EXCEPT !.header = <<"tb">>, !.statements = enc.statements,
                            !.size = StreamKindSize(data)]]

\* Block.DecodeRLP on the object b: the decoded Header is a new object, the
\* size of the list that was read is stored, the cached hash stays
BlockLoad(heap, b, data) ==
    LET enc == BlockDecodeRLP(data)
    IN [heap |-> (<<"tb">> :> enc.header) @@ heap,
        block |-> [b EXCEPT !.header = <<"tb">>, !.statements = enc.statements,
                            !.size = ListSize(StreamKindSize(data))]]

\* var tb Block
ZeroBlock == [header |-> NilHeader, statements |-> <<>>, hash |-> NoHash, size |-> NoSize]

\* the state outside the Block objects
blockFrame == <<db, ctlVars, storeVars, trieVars, codeVars, stmtVars>>

\* the Header objects at some pointers
Headers(heap, ptrs) == [q \in DOMAIN heap \cap ptrs |-> heap[q]]

\* the user of a new block has an empty buffer and no decoded block
StartOver ==
    /\ bbuf' = NoBytes
    /\ tb' = NoBlock
    /\ bdecoded' = [op |-> "none"]

\* ob := NewBlock(stmts, privKey), of the block with a header and statements
\* (form "header"), of the block with a Sign ("block"), of the block over a
\* blockData ("data"); no error is returned
CallNewBlock(form, stmts, privKey) ==
    LET v == CASE form = "header" -> NewBlockWithStatements(stmts, privKey, now)
               [] form = "block" -> NewBlockOfTxs(stmts, privKey, now)
               [] form = "data" -> NewBlockOfData(stmts, privKey, now)
    IN /\ hdrs' = (<<"b">> :> (IF form = "data" THEN v.data ELSE v.header))
       /\ ob' = BlockObject(v, <<"b">>)
       /\ bmade' = [op |-> "new", form |-> form, key |-> privKey, err |-> ErrNil]
       /\ StartOver
       /\ UNCHANGED <<now, blockFrame>>

\* ob = ob.CreateSuccessor(stmts, privKey): the parent is hashed, with its
\* cache; no error is returned
CallCreateSuccessor(stmts, privKey) ==
    /\ ob # NoBlock
    /\ "statements" \in DOMAIN ob
    /\ hdrs[ob.header].Number < MaxNumber
    /\ LET parent == BlockObjHash(hdrs, ob)
           h == HeaderSign([PrevHash |-> parent.hash,
                            Number |-> hdrs[ob.header].Number + 1, Time |-> now,
                            StmtsRoot |-> StmtsRootOf(stmts), SignatureType |-> "ECDSA",
                            Signature |-> NoBytes], privKey)
       IN /\ hdrs' = (<<"b">> :> h)
          /\ ob' = BlockObject([header |-> h, statements |-> stmts], <<"b">>)
    /\ bmade' = [op |-> "successor", form |-> "header", key |-> privKey, err |-> ErrNil]
    /\ StartOver
    /\ UNCHANGED <<now, blockFrame>>

\* ob := NewBlockWithHeader(header) with a header of number 0 that is signed
\* as Header.sign signs it, the caller keeping the header
CallNewBlockWithHeader(privKey) ==
    LET header == HeaderSign([PrevHash |-> ZeroHash, Number |-> 0, Time |-> now,
                              StmtsRoot |-> EmptyRootHash, SignatureType |-> "ECDSA",
                              Signature |-> NoBytes], privKey)
    IN /\ hdrs' = (<<"h">> :> header)
       /\ ob' = BlockObject([header |-> header, statements |-> <<>>], <<"h">>)
       /\ bmade' = [op |-> "withHeader", form |-> "header", key |-> privKey,
                    err |-> ErrNil]
       /\ StartOver
       /\ UNCHANGED <<now, blockFrame>>

\* the caller sets header.Time of the header it gave NewBlockWithHeader
CallerSetTime ==
    /\ <<"h">> \in DOMAIN hdrs
    /\ hdrs[<<"h">>].Time # now
    /\ hdrs' = [hdrs EXCEPT ![<<"h">>].Time = now]
    /\ UNCHANGED <<ob, bmade, bbuf, tb, bdecoded, now, blockFrame>>

\* ob.Sign(privKey), of the block that has a Sign
CallSign(privKey) ==
    /\ ob # NoBlock
    /\ {"data", "statements"} \cap DOMAIN ob = {}
    /\ hdrs' = [hdrs EXCEPT ![ob.header] = BlockSign(hdrs[ob.header], privKey)]
    /\ bmade' = [op |-> "sign", form |-> "block", key |-> privKey, err |-> ErrNil]
    /\ UNCHANGED <<ob, bbuf, tb, bdecoded, now, blockFrame>>

\* ob.Hash() or tb.Hash()
CallBlockHash(o) ==
    /\ (IF o = "ob" THEN ob ELSE tb) # NoBlock
    /\ LET r == BlockObjHash(hdrs, IF o = "ob" THEN ob ELSE tb)
       IN /\ ob' = IF o = "ob" THEN r.block ELSE ob
          /\ tb' = IF o = "ob" THEN tb ELSE r.block
    /\ UNCHANGED <<hdrs, bmade, bbuf, bdecoded, now, blockFrame>>

\* ob.Size() or tb.Size(), of the block with a header and statements
CallBlockSize(o) ==
    /\ (IF o = "ob" THEN ob ELSE tb) # NoBlock
    /\ "statements" \in DOMAIN (IF o = "ob" THEN ob ELSE tb)
    /\ LET r == BlockObjSize(hdrs, IF o = "ob" THEN ob ELSE tb)
       IN /\ ob' = IF o = "ob" THEN r.block ELSE ob
          /\ tb' = IF o = "ob" THEN tb ELSE r.block
    /\ UNCHANGED <<hdrs, bmade, bbuf, bdecoded, now, blockFrame>>

\* ob.EncodeRLP(&buf) into an empty buffer
CallBlockEncodeRLP ==
    /\ ob # NoBlock
    /\ "statements" \in DOMAIN ob
    /\ bbuf' = BlockEncodeRLP(BlockValue(hdrs, ob))
    /\ UNCHANGED <<hdrs, ob, bmade, tb, bdecoded, now, blockFrame>>

\* tb.DecodeRLP(rlp.NewStream(&buf, 0)), tb being a new var tb Block or the
\* Block loaded before
CallBlockDecodeRLP(fresh) ==
    /\ bbuf # NoBytes
    /\ fresh \/ tb # NoBlock
    /\ LET r == BlockLoad(Headers(hdrs, {<<"b">>, <<"h">>}),
                          IF fresh THEN ZeroBlock ELSE tb, bbuf)
       IN /\ hdrs' = r.heap
          /\ tb' = r.block
    /\ bdecoded' = [op |-> "decode", fresh |-> fresh, from |-> bbuf]
    /\ UNCHANGED <<ob, bmade, bbuf, now, blockFrame>>

NextBlock ==
    \/ Tick
    \/ \E form \in {"header", "block", "data"}, stmts \in StmtLists, k \in MakeKeys :
           CallNewBlock(form, stmts, k)
    \/ \E stmts \in StmtLists, k \in MakeKeys : CallCreateSuccessor(stmts, k)
    \/ \E k \in MakeKeys : CallNewBlockWithHeader(k)
    \/ CallerSetTime
    \/ \E k \in SignKeys : CallSign(k)
    \/ \E o \in {"ob", "tb"} : CallBlockHash(o)
    \/ \E o \in {"ob", "tb"} : CallBlockSize(o)
    \/ CallBlockEncodeRLP
    \/ \E fresh \in BOOLEAN : CallBlockDecodeRLP(fresh)

SpecBlock == Init /\ [][NextBlock]_vars

(* ------------------------------ claims --------------------------------- *)

\* C1: under every interleaving of concurrent LockAndGetTrie calls, at most
\* one caller holds a returned trie handle before an unlock.
C1_SingleHolder == Cardinality(holders) <= 1

\* C2: the first LockAndGetTrie on a fresh chain returns a trie and no error;
\* a LockAndGetTrie issued after one has returned a trie and before any
\* UnlockTrie returns nil with exactly ErrTrieIsAlreadyLocked and leaves the
\* status locked.
C2_LockOnce ==
    \A c \in Callers :
        ret[c].op = "lock" =>
            /\ ret[c].first => (ret[c].trie # NoTrie /\ ret[c].err = ErrNil)
            /\ ret[c].held => /\ ret[c].trie = NoTrie
                              /\ ret[c].err = ErrTrieIsAlreadyLocked
                              /\ ret[c].stsAfter = locked

\* one caller was given the trie of the fresh chain and another one, calling
\* afterwards, was refused
C2_Witness ==
    \E c, d \in Callers :
        /\ ret[c].op = "lock" /\ ret[c].first /\ ret[c].trie # NoTrie
        /\ ret[d].op = "lock" /\ ret[d].held /\ ret[d].trie = NoTrie

\* C3: after a successful LockAndGetTrie followed by UnlockTrie the status is
\* unlocked again and the next LockAndGetTrie returns a trie and no error.
C3_UnlockReleases ==
    \A c \in Callers :
        /\ (ret[c].op = "unlock" /\ ret[c].holder) => ret[c].stsAfter = unlocked
        /\ (ret[c].op = "lock" /\ ret[c].afterUnlock) =>
               (ret[c].trie # NoTrie /\ ret[c].err = ErrNil)

\* C4: CreateBlock produces no block when its LockAndGetTrie failed.
C4_CreateFailsWhenLocked ==
    \A c \in Callers :
        (ret[c].op = "create" /\ ret[c].lockErr # ErrNil) => ret[c].block = NoBlock

\* C5: a CreateBlock that returns block b leaves CurrentBlock() = b, with b
\* numbered one above the previous current block and linked to its hash.
C5_CreateAdvancesHead ==
    \A c \in Callers :
        (ret[c].op = "create" /\ ret[c].block # NoBlock) =>
            /\ ret[c].head = ret[c].block
            /\ ret[c].block.Number = ret[c].prev.Number + 1
            /\ ret[c].block.PrevHash = Hash(ret[c].prev)

\* C6: right after CreateBlock returned block b, Chain.Block(b.number)
\* returns a block with b's hash and no error.
C6_CreatedBlockPersisted ==
    \A c \in Callers :
        (ret[c].op = "create" /\ ret[c].block # NoBlock) =>
            /\ ret[c].lookup.err = ErrNil
            /\ ret[c].lookup.block # NoBlock
            /\ Hash(ret[c].lookup.block) = Hash(ret[c].block)

\* C7: when a key was inserted through the locked handle before the block
\* is created, the new block's state root differs from its parent's and
\* from the empty root.
C7_RootReflectsMutations ==
    \A c \in Callers :
        (ret[c].op = "create" /\ ret[c].block # NoBlock /\ ret[c].mutated) =>
            /\ ret[c].block.TrieRoot # ret[c].prev.TrieRoot
            /\ ret[c].block.TrieRoot # EmptyRootHash

\* C8: every NewChain against the same store yields a FirstBlock with the
\* same hash; no new genesis is synthesized once block 0 is stored.
C8_GenesisIdempotent ==
    /\ Cardinality(firstHashes) <= 1
    /\ open => firstHashes = {Hash(firstBlock)}

\* the chain was reopened on the populated store with a key other than the
\* one that signed the stored genesis
C8_Witness ==
    /\ open
    /\ ~fromEmpty
    /\ firstBlock.Signature # NoBytes
    /\ firstBlock.Signature[2] # privateKey

\* C9: NewChain on an empty store returns a chain whose FirstBlock and
\* CurrentBlock are the same block with number 0, and Chain.Block(0) returns
\* that block with no error.
C9_GenesisOnEmptyStore ==
    (open /\ fromEmpty) =>
        /\ firstBlock = currentBlock
        /\ firstBlock # NoBlock
        /\ firstBlock.Number = 0
        /\ ChainBlock(db, 0).err = ErrNil
        /\ ChainBlock(db, 0).block # NoBlock
        /\ ChainBlock(db, 0).block.Number = 0

\* a chain built on the empty store
C9_Witness == open /\ fromEmpty /\ firstBlock # NoBlock

\* C10: the genesis synthesized on an empty store is signed, has the zero
\* parent hash and has the empty-root constant as its state root.
C10_GenesisShape ==
    (open /\ fromEmpty) =>
        /\ firstBlock.Signature # NoBytes
        /\ firstBlock.PrevHash = ZeroHash
        /\ firstBlock.TrieRoot = EmptyRootHash

\* C11: after WriteBlock(db, b) for a block b with number n, GetBlock(db, n)
\* and Chain.Block(n) return a block with the number n and with the header
\* and the statements of b, and the record of every other number m is what
\* it was before the write.
C11_WriteBlockRoundTrip ==
    [][StoreWriteBlock =>
          LET n == BlockNumber(blk)
              got == GetBlock(db', n)
          IN /\ got # NoBlock
             /\ BlockNumber(got) = n
             /\ got.header = blk.header
             /\ got.statements = blk.statements
             /\ ChainBlock(db', n) = [block |-> got, err |-> ErrNil]
             /\ \A m \in (0..(MaxNumber + 1)) \ {n} :
                    GetBlock(db', m) = GetBlock(db, m)]_vars

\* a block with statements was written under number 1 next to a record of
\* number 0 and reads back
C11_Witness ==
    /\ blk # NoBlock
    /\ BlockNumber(blk) = 1
    /\ Len(blk.statements) = 2
    /\ GetBlock(db, 1) = blk
    /\ GetBlock(db, 0) # NoBlock

\* C12: Chain.Block(number) for a number under which no block is stored
\* returns (nil, ErrNoBlock): never a block, never (nil, nil).
C12_MissingBlockIsError ==
    (looked.op = "block" /\ ~looked.stored) =>
        (looked.isNil /\ looked.err = ErrNoBlock)

\* C13: b2 = b1.CreateSuccessor(stmts, key) has b1.Hash() as its parent hash
\* and the number of b1 plus one.
C13_SuccessorLinkage ==
    made.op = "successor" =>
        /\ blk.header.PrevHash = BlockHash(made.parent)
        /\ blk.header.Number = made.parent.header.Number + 1

\* a successor carrying statements was built on a block carrying statements
C13_Witness ==
    /\ made.op = "successor"
    /\ Len(made.stmts) > 0
    /\ Len(made.parent.statements) > 0

\* C14: NewBlock gives number 0; its root is EmptyRootHash for an empty or
\* nil statement list and differs from EmptyRootHash for a list with at
\* least one statement.
C14_NewBlockRoot ==
    made.op = "new" =>
        /\ blk.header.Number = 0
        /\ (Len(made.stmts) = 0 => blk.header.StmtsRoot = EmptyRootHash)
        /\ (Len(made.stmts) >= 1 => blk.header.StmtsRoot # EmptyRootHash)

\* NewBlock was given a list of statements
C14_Witness ==
    /\ made.op = "new"
    /\ Len(made.stmts) >= 1
    /\ blk.statements = made.stmts

\* C15: after n calls of pushTrie the list of past tries has the length
\* min(n, 12) and holds exactly the min(n, 12) tries pushed last, in the
\* order they were pushed; when the pushed roots differ from one another
\* and more than 12 were pushed, the cache scan of OpenTrie finds each of
\* the last 12 roots and none of the roots pushed before them.
C15_CacheBoundFifo ==
    LET n == Len(pushed)
        m == Len(pastTries)
    IN /\ m = (IF n < maxPastTries THEN n ELSE maxPastTries)
       /\ \A i \in 1..m : pastTries[i] = pushed[n - m + i].t
       /\ (/\ n > maxPastTries
           /\ \A i, j \in 1..n : i # j => pushed[i].root # pushed[j].root)
          => /\ \A j \in (n - m + 1)..n : CacheScan(pastTries, tries, pushed[j].root) # 0
             /\ \A j \in 1..(n - m) : CacheScan(pastTries, tries, pushed[j].root) = 0

\* thirteen tries were pushed: the first root is gone, the thirteenth is
\* there, one OpenTrie has missed and failed and one has hit
C15_Witness ==
    /\ Len(pushed) = maxPastTries + 1
    /\ Len(pastTries) = maxPastTries
    /\ CacheScan(pastTries, tries, PushRoot(1)) = 0
    /\ CacheScan(pastTries, tries, PushRoot(maxPastTries + 1)) # 0
    /\ \E c \in Callers : tret[c] = [op |-> "open", hit |-> FALSE, err |-> "missing trie node"]
    /\ \E c \in Callers : tret[c] = [op |-> "open", hit |-> TRUE, err |-> ErrNil]

\* C16: no step of OpenTrie, on a hit or on a miss, changes the list of past
\* tries: the same tries in the same order with the same contents.
C16_OpenTrieFrame ==
    [][(\E c \in Callers :
           \/ \E root \in CacheRoots : OpenLock(c, root)
           \/ OpenScan(c)
           \/ OpenRead(c))
        => /\ pastTries' = pastTries
           /\ \A i \in 1..Len(pastTries) : tries'[pastTries[i]] = tries[pastTries[i]]]_vars

\* an OpenTrie has hit in a full list and returned a handle
C16_Witness ==
    /\ Len(pastTries) = maxPastTries
    /\ \E c \in Callers :
          /\ tret[c] = [op |-> "open", hit |-> TRUE, err |-> ErrNil]
          /\ th[c] # NoHandle
          /\ tpc[c] = "idle"

\* C17: whatever is done through the handles, every trie in the list of past
\* tries keeps the root (and so the contents) it had when it was pushed.
C17_SnapshotsKeepRoot ==
    LET n == Len(pushed)
        m == Len(pastTries)
    IN \A i \in 1..m : TrieHash(tries[pastTries[i]]) = pushed[n - m + i].root

\* C18: OpenTrie and pushTrie never hold the mutex while a read of the
\* backing store (the opening of a trie after a cache miss) is in progress.
C18_NoStoreReadUnderMutex ==
    \A c \in Callers :
        ~(/\ mu = c
          /\ tpc[c] = "read"
          /\ tloc[c].root \notin {ZeroHash, EmptyRootHash})

\* C19: under every interleaving of pushTrie and OpenTrie calls the list is
\* never longer than 12, and once the calls have returned every push is in
\* the order of the pushes exactly once and the list is what pushing in that
\* order one after the other gives.
C19_ConcurrentPushes ==
    /\ Len(pastTries) <= maxPastTries
    /\ (\A c \in Callers : tpc[c] = "idle") =>
          LET m == IF issued < maxPastTries THEN issued ELSE maxPastTries
          IN /\ Len(pushed) = issued
             /\ {pushed[i].t : i \in 1..Len(pushed)} = {PushPointer(i) : i \in 1..issued}
             /\ pastTries = [i \in 1..m |-> pushed[issued - m + i].t]

\* two pushes ran at the same time on a full list and returned in the
\* other order than they were called
C19_Witness ==
    /\ \A c \in Callers : tpc[c] = "idle"
    /\ Len(pastTries) = maxPastTries
    /\ Len(pushed) > maxPastTries + 1
    /\ \E i \in 1..(Len(pushed) - 1) : pushed[i].t[2] > pushed[i + 1].t[2]

\* C20: every entry of the code size cache is the length of the code the
\* store holds under that hash; a ContractCodeSize that returns no error
\* returns the length of the stored code, and it returns no error whenever
\* the code is there and can be read; a read of the store that fails comes
\* back as an error and adds no entry to the cache.
C20_CodeSizeCoherent ==
    /\ \A h \in DOMAIN codeSizeCache :
          /\ h \in DOMAIN db
          /\ codeSizeCache[h] = Len(db[h])
    /\ (cret.op = "size" /\ cret.err = ErrNil) => cret.size = Len(db[cret.hash])
    /\ (cret.op \in {"size", "code"} /\ cret.err # ErrNil) => (cret.read /\ ~cret.added)
    /\ (cret.op = "size" /\ cret.hash \in DOMAIN db /\ cret.err # ErrNil)
          => cret.hash \notin DOMAIN codeSizeCache

\* a stored code could not be read by ContractCodeSize, and the cache holds
\* the size of another code
C20_Witness ==
    /\ cret.op = "size"
    /\ cret.hash \in DOMAIN db
    /\ cret.err = "read failed"
    /\ \E h \in DOMAIN codeSizeCache : codeSizeCache[h] = 2

\* C21: a Statement built by NewStatement, with a key and a value or with a
\* payload, empty or not, and the new Statement its encoding was decoded
\* into: both show the same fields, both return the same Hash(), and the
\* decoded one encodes to the bytes it was decoded from.
C21_StatementRoundTrip ==
    (/\ st # NoStatement
     /\ tst # NoStatement
     /\ decoded.op = "decode"
     /\ decoded.fresh
     /\ decoded.from = StatementEncodeRLP(StatementValue(mem, st)))
    => /\ StatementValue(mem, tst) = StatementValue(mem, st)
       /\ StatementHash(mem, tst).hash = StatementHash(mem, st).hash
       /\ StatementEncodeRLP(StatementValue(mem, tst)) = decoded.from

\* a statement with a key and a nil value was decoded into a new Statement
\* and both have been hashed
C21_Witness ==
    /\ st # NoStatement
    /\ tst # NoStatement
    /\ decoded.op = "decode"
    /\ decoded.fresh
    /\ decoded.from = StatementEncodeRLP(StatementValue(mem, st))
    /\ Len(st.data) = 2
    /\ given[1] # NoBytes
    /\ st.data[2] = NilSlice
    /\ st.hash # NoHash
    /\ tst.hash # NoHash

\* C22: whatever the caller writes into the arrays behind the arguments it
\* gave NewStatement or behind a slice an accessor returned, the fields of
\* the statement show the bytes NewStatement was given, an accessor returned
\* those bytes, and Hash() returns the hash of a statement of those bytes.
C22_NoAliasing ==
    st # NoStatement =>
        /\ \A i \in 1..Len(st.data) : SliceBytes(mem, st.data[i]) = given[i]
        /\ sret.op = "field" => sret.bytes = given[sret.i]
        /\ StatementHash(mem, st).hash =
             Keccak256(StatementEncodeRLP(IF Len(given) = 1
                                          THEN NewPayloadStatement(given[1])
                                          ELSE NewStatement(given[1], given[2])))

\* the caller has overwritten the array behind a key in use, the array behind
\* an empty value, and the slice Key() returned, and the statement is hashed
C22_Witness ==
    /\ st # NoStatement
    /\ Len(st.data) = 2
    /\ given[1] # NoBytes
    /\ given[2] = NoBytes
    /\ {<<"arg", 1>>, <<"arg", 2>>} \subseteq DOMAIN mem
    /\ mem[<<"arg", 1>>][1] = WriteByte
    /\ Len(mem[<<"arg", 2>>]) > 0
    /\ mem[<<"arg", 2>>][1] = WriteByte
    /\ sret.op = "field"
    /\ sret.i = 1
    /\ mem[sret.slice.arr][1] = WriteByte
    /\ st.hash # NoHash

\* C23: a block built by NewBlock or CreateSuccessor with no statements or
\* with several, and the new Block its encoding was decoded into: both have
\* the same header fields, the same statements in the same order and
\* return the same Hash().
C23_BlockRoundTrip ==
    (/\ ob # NoBlock
     /\ bmade.op \in {"new", "successor"}
     /\ bmade.form = "header"
     /\ tb # NoBlock
     /\ bdecoded.op = "decode"
     /\ bdecoded.fresh
     /\ bdecoded.from = BlockEncodeRLP(BlockValue(hdrs, ob)))
    => /\ hdrs[tb.header] = hdrs[ob.header]
       /\ tb.statements = ob.statements
       /\ BlockObjHash(hdrs, tb).hash = BlockObjHash(hdrs, ob).hash

\* a successor with two statements was decoded into a new Block and both
\* have been hashed
C23_Witness ==
    /\ ob # NoBlock
    /\ bmade.op = "successor"
    /\ tb # NoBlock
    /\ bdecoded.op = "decode"
    /\ bdecoded.fresh
    /\ bdecoded.from = BlockEncodeRLP(BlockValue(hdrs, ob))
    /\ Len(ob.statements) = 2
    /\ hdrs[ob.header].Signature # NoBytes
    /\ ob.hash # NoHash
    /\ tb.hash # NoHash

\* C24: the hash a Block has cached is the hash of the header it has now,
\* signature included, whatever Hash, Sign, NewBlockWithHeader and DecodeRLP
\* calls were made on it.
C24_HashIsCurrent ==
    \A b \in {ob, tb} :
        (b # NoBlock /\ b.hash # NoHash) =>
            b.hash = AnyHeaderHash(hdrs[HeaderPtr(b)])

\* C25: the digest behind every signature is the hash of the encoding of
\* the header it is in with the signature left out, so that it changes
\* with each of parent hash, number, time, root and signature type and
\* not with the signature the header had.
C25_SigningDigest ==
    \A q \in DOMAIN hdrs :
        hdrs[q].Signature # NoBytes =>
            hdrs[q].Signature[3] =
                IF "Time" \in DOMAIN hdrs[q]
                THEN Keccak256(HeaderEncodeRLP([hdrs[q] EXCEPT !.Signature = NoBytes]))
                ELSE Keccak256(blockDataEncodeRLP([hdrs[q] EXCEPT !.Signature = NoBytes]))

\* C26: NewBlock, CreateSuccessor and Sign with a key the signature primitive
\* refuses report an error, and the block they leave never has an empty
\* signature.
C26_SigningFailureReported ==
    (ob # NoBlock /\ bmade.op \in {"new", "successor", "sign"}) =>
        /\ bmade.key \in BadKeys => bmade.err # ErrNil
        /\ hdrs[HeaderPtr(ob)].Signature # NoBytes

\* C27: an UnlockTrie called while the status is unlocked leaves the status
\* unlocked and leaves the current block, the first block, the store and
\* the list of past tries as they are.
C27_UnlockWhenUnlocked ==
    [][\A c \in Callers :
          (UnlockTrie(c) /\ trieStatus = unlocked) =>
              /\ trieStatus' = unlocked
              /\ currentBlock' = currentBlock
              /\ firstBlock' = firstBlock
              /\ db' = db
              /\ pastTries' = pastTries
              /\ tries' = tries]_vars

\* UnlockTrie has returned on a chain whose status was unlocked
C27_Witness ==
    \E c \in Callers :
        /\ ret[c].op = "unlock"
        /\ ret[c].stsBefore = unlocked
        /\ ret[c].stsAfter = unlocked
        /\ ~ret[c].holder

\* C28: GetBlock returns nil when the bytes under the block key are empty
\* or are not the encoding of a block, GetStmtLookupEntry returns
\* (0, 0, false) when the bytes under the lookup key are empty or are not
\* the encoding of an entry; a block that is returned is the stored one.
C28_FailClosedDecoding ==
    /\ looked.op = "getBlock" =>
           /\ looked.data \in BadBlockData \cup {NoBytes} => looked.isNil
           /\ ~looked.isNil => (/\ looked.data \in BlockData
                                /\ EncodeRLP(looked.block) = looked.data)
    /\ looked.op = "getEntry" =>
           /\ looked.data \in BadEntryData \cup {NoBytes} =>
                  (~looked.ok /\ looked.number = 0 /\ looked.index = 0)
           /\ looked.ok => looked.data = <<looked.number, looked.index>>

\* GetStmtLookupEntry has read bytes that do not decode, from a store that
\* holds bytes that do not decode under a block key too
C28_Witness ==
    /\ looked.op = "getEntry"
    /\ looked.data \in BadEntryData
    /\ ~looked.ok
    /\ \E n \in 0..MaxNumber : DbGet(db, mkBlockKey(n)) \in BadBlockData

\* C29: a NewChain whose Put of the first block fails returns an error and
\* no chain, and a WriteBlock whose Put fails returns an error.
C29_PutFailureReported ==
    (fate.op \in {"NewChain", "WriteBlock"} /\ fate.putFailed) =>
        (fate.returned /\ fate.err # ErrNil /\ ~fate.chain)

\* C30: a block stored under a number stays: after every step the record
\* under that number is a block with the hash it had before.
C30_AppendOnly ==
    [][\A n \in 0..(MaxNumber + 1) :
          GetBlock(db, n) # NoBlock =>
              /\ GetBlock(db', n) # NoBlock
              /\ Hash(GetBlock(db', n)) = Hash(GetBlock(db, n))]_vars

\* C31: when a CreateBlock whose LockAndGetTrie took the lock returns, the
\* trie status is unlocked.
C31_CreateReleasesLock ==
    \A c \in Callers :
        (ret[c].op = "create" /\ ret[c].lockErr = ErrNil) => ret[c].stsAfter = unlocked

\* C32: an UnlockTrie called by the holder of the trie while the status is
\* locked leaves the entries written through the handle in the store (the
\* trie at the committed root opens and holds them) and a snapshot with
\* the committed root in the list of past tries.
C32_UnlockCommits ==
    [][\A c \in Callers :
          (UnlockTrie(c) /\ trieStatus = locked /\ handle[c] # NoTrie) =>
              LET content == handle[c].content
                  root == TrieHash(content)
                  reopened == TrieNew(root, db')
              IN /\ reopened.err = ErrNil
                 /\ reopened.content = content
                 /\ \E i \in DOMAIN pastTries' :
                        TrieHash(tries'[pastTries'[i]]) = root]_vars

\* C33: two Statement objects that show the same key and value (or payload)
\* and the same signature values return the same Hash(), whatever each of
\* them was built from or loaded with before.
C33_HashOfContent ==
    (/\ st # NoStatement
     /\ tst # NoStatement
     /\ StatementValue(mem, tst) = StatementValue(mem, st))
    => StatementHash(mem, tst).hash = StatementHash(mem, st).hash

C36_GetStatement ==
    looked.op = "getStatement" =>
        LET entry == DbGet(db, mkStmtLookupKey(looked.key))
            entryOk == Len(entry) = 2
            data == IF entryOk THEN DbGet(db, mkBlockKey(entry[1])) ELSE NoBytes
            blockOk == data \in BlockData
            found == entryOk /\ blockOk /\ entry[2] < Len(data[2])
        IN IF found
           THEN /\ looked.stmt = StatementDecodeRLP(data[2][entry[2] + 1])
                /\ looked.number = entry[1]
                /\ looked.index = entry[2]
           ELSE /\ looked.stmt = NoStatement
                /\ looked.number = 0
                /\ looked.index = 0

\* GetStatement has returned the second statement of block 1 with its
\* number and its index
C36_Witness ==
    /\ looked.op = "getStatement"
    /\ looked.stmt = StmtBare
    /\ looked.number = 1
    /\ looked.index = 1
    /\ DbGet(db, mkStmtLookupKey(looked.key)) = <<1, 1>>

\* C37: when a LockAndGetTrie returns an error, the trie status is the one
\* the call found, and the error is ErrTrieIsAlreadyLocked only when the
\* status it found was not unlocked.
C37_FailedLockKeepsStatus ==
    [][\A c \in Callers :
          ((LockOpen(c) \/ LockFail(c)) /\ loc[c].op = "lock" /\ ret'[c].err # ErrNil) =>
              /\ trieStatus' = loc[c].sts
              /\ ret'[c].err = ErrTrieIsAlreadyLocked => loc[c].sts # unlocked]_vars

\* C38: whatever the interleaving of the CreateBlock calls on one chain, two
\* different blocks they returned have neither the same number nor the same
\* parent hash.
C38_NoForks ==
    \A c, d \in Callers :
        (/\ ret[c].op = "create"
         /\ ret[d].op = "create"
         /\ ret[c].block # NoBlock
         /\ ret[d].block # NoBlock
         /\ ret[c].block # ret[d].block)
        => /\ ret[c].block.Number # ret[d].block.Number
           /\ ret[c].block.PrevHash # ret[d].block.PrevHash

\* C39: whenever a chain is open and no call is running on it, the value
\* under the last block key is the hash of the current block.
C39_HeadPointer ==
    (open /\ \A c \in Callers : pc[c] = "idle") =>
        DbGet(db, lastBlockKey) = Hash(currentBlock)

\* a chain was built on the store an earlier chain had left, and a
\* CreateBlock and a LockAndGetTrie have returned on it
C39_Witness ==
    /\ open
    /\ ~fromEmpty
    /\ \A c \in Callers : pc[c] = "idle"
    /\ \E c, d \in Callers :
          /\ ret[c].op = "create"
          /\ ret[c].block # NoBlock
          /\ ret[d].op = "lock"
    /\ DbGet(db, lastBlockKey) = Hash(currentBlock)

\* C40: a chain built by NewChain on a store that holds the blocks 0..n
\* with n >= 1 has the stored block of the highest number as its current
\* block, and the hash under the last block key is not the hash of block 0.
C40_ReopenKeepsHead ==
    (open /\ GetBlock(db, 1) # NoBlock) =>
        LET stored == {i \in 0..(MaxNumber + 1) : GetBlock(db, i) # NoBlock}
            top == CHOOSE i \in stored : \A j \in stored : j <= i
        IN /\ currentBlock = GetBlock(db, top)
           /\ DbGet(db, lastBlockKey) # Hash(GetBlock(db, 0))

====
